---- MODULE Spec2Model ----
(***************************************************************************)
(* Model of the ensemble statistics and agreement engine of                *)
(* weather_agent (src/src/weather_agent/tools/statistics.py).              *)
(*                                                                         *)
(* Numbers.  Every numeric value is an integer count of thousandths        *)
(* (50.0 F is 50000, 0.02 inch is 20, an agreement score of 0.8 is 800).   *)
(* round(x, 2) therefore yields a multiple of 10 and round(x, 3) an        *)
(* integer.  A value that is not a whole number of thousandths (a mean,    *)
(* a quartile, a score) is kept as an exact fraction num/den until it is   *)
(* rounded; ties are rounded to the even neighbour, as round() does on an  *)
(* exactly representable tie.                                              *)
(*                                                                         *)
(* Mappings.  A Python dict is a record of fixed shape: the set of keys    *)
(* that are present and the arrays stored under them.  A dataset is the    *)
(* sequence of its (name, value) items in iteration order.                 *)
(***************************************************************************)
EXTENDS Integers, Sequences, FiniteSets, TLC

VARIABLES forecast_data, runtime, call, result,
          messages, iteration, max_iterations, response, tool_log, returned, pc

\* the state of a run of WeatherEnsembleAgent.run: the conversation, the loop
\* counter and its limit, the model's last response, the tools executed for
\* it and how each ended, the value returned, and the place in the loop
run_vars ==
    <<messages, iteration, max_iterations, response, tool_log, returned, pc>>

\* the state of an invocation of the statistics functions
tool_vars == <<forecast_data, runtime, call, result>>

vars == <<forecast_data, runtime, call, result,
          messages, iteration, max_iterations, response, tool_log, returned, pc>>

(***************************************************************************)
(* Bounds of the model                                                     *)
(***************************************************************************)
\* largest number of items of a dataset
MaxModels == 3
\* largest number of timesteps of a series
MaxLen == 2
\* the most members of a dataset passed as text
MaxTextMembers == 2

(***************************************************************************)
(* Arithmetic helpers                                                      *)
(***************************************************************************)
RECURSIVE SumSeq(_)
SumSeq(s) == IF s = <<>> THEN 0 ELSE Head(s) + SumSeq(Tail(s))

RECURSIVE MinSeq(_)
MinSeq(s) ==
    IF Len(s) = 1 THEN s[1]
    ELSE LET m == MinSeq(Tail(s)) IN IF s[1] <= m THEN s[1] ELSE m

RECURSIVE MaxSeq(_)
MaxSeq(s) ==
    IF Len(s) = 1 THEN s[1]
    ELSE LET m == MaxSeq(Tail(s)) IN IF s[1] >= m THEN s[1] ELSE m

RECURSIVE Insert(_, _)
Insert(x, s) ==
    IF s = <<>> THEN <<x>>
    ELSE IF x <= Head(s) THEN <<x>> \o s
    ELSE <<Head(s)>> \o Insert(x, Tail(s))

\* a faulty sorted(): the values in the order given
Sorted_AsGiven(s) == s

RECURSIVE Sorted(_)
Sorted(s) == IF s = <<>> THEN <<>> ELSE Insert(Head(s), Sorted(Tail(s)))

\* num/den (den > 0) rounded to the nearest integer, ties to even
RoundDiv(num, den) ==
    LET q == num \div den
        r == num - q * den
    IN  IF 2 * r < den THEN q
        ELSE IF 2 * r > den THEN q + 1
        ELSE IF q % 2 = 0 THEN q ELSE q + 1

\* round(num/den, 2) and round(num/den, 3) of a value counted in thousandths
Round2(num, den) == 10 * RoundDiv(num, 10 * den)
Round3(num, den) == RoundDiv(num, den)

\* the least r in lo..hi with q < (2r + 1)^2.  With q = floor(4x) this is
\* sqrt(x) rounded to the nearest integer: (2r - 1)^2 <= 4x < (2r + 1)^2
RECURSIVE SqrtRound(_, _, _)
SqrtRound(q, lo, hi) ==
    IF lo >= hi THEN lo
    ELSE LET mid == (lo + hi) \div 2
         IN  IF q < (2 * mid + 1) * (2 * mid + 1)
             THEN SqrtRound(q, lo, mid)
             ELSE SqrtRound(q, mid + 1, hi)

(***************************************************************************)
(* Data model: datasets as the fetch layer builds them                     *)
(***************************************************************************)
\* model identifiers, in the order get_available_models lists them
ModelNames == <<"gfs", "ecmwf", "gem", "icon">>

Variables == {"temperature", "precipitation", "wind_speed"}

HourlyFields == {"temperature", "precipitation", "wind_speed"}
DailyFields ==
    {"temperature_max", "temperature_min", "precipitation", "wind_speed_max"}
NumericFields == HourlyFields \cup DailyFields

HourlyKeys ==
    {"latitude", "longitude", "timezone", "timezone_abbreviation",
     "utc_offset_seconds", "times", "model", "current_time"} \cup HourlyFields
DailyKeys ==
    {"latitude", "longitude", "timezone", "dates", "model"} \cup DailyFields

NoArrays == [f \in NumericFields |-> <<>>]

\* {"error": "..."} as both fetch functions store it for a failed model
ErrorRecord(name) ==
    [name |-> name, isdict |-> TRUE, keys |-> {"error"},
     vals |-> NoArrays, times |-> <<>>, dates |-> <<>>]

\* a value that is not a mapping (null, a string, a number)
Malformed(name) ==
    [name |-> name, isdict |-> FALSE, keys |-> {},
     vals |-> NoArrays, times |-> <<>>, dates |-> <<>>]

\* the forecast of one model at (1-based) timestep i, before scaling
BaseValue(name, i) ==
    LET row == CASE name = "gfs"   -> <<0, 1, 0>>
                 [] name = "ecmwf" -> <<2, 0, 3>>
                 [] name = "gem"   -> <<3, 1, 0>>
                 [] OTHER          -> <<1, 2, 1>>
    IN  row[((i - 1) % 3) + 1]

\* the value of a field, in thousandths (gfs temperature 50.0, 52.0 and
\* ecmwf temperature 54.0, 50.0 are the spec's worked example).  The steps
\* and the rows above are chosen so that nothing the functions round falls
\* half way between two roundings, where round() follows the binary
\* representation of the float
FieldValue(name, f, i) ==
    CASE f = "temperature"     -> 50000 + 2000 * BaseValue(name, i)
      [] f = "precipitation"   -> 40 * BaseValue(name, i)
      [] f = "wind_speed"      -> 10000 + 3000 * BaseValue(name, i)
      [] f = "temperature_max" -> 60000 + 2000 * BaseValue(name, i)
      [] f = "temperature_min" -> 40000 + 2000 * BaseValue(name, i)
      [] OTHER                 -> 15000 + 3000 * BaseValue(name, i)

\* one model's hourly series of n timesteps (fetch_weather_forecast)
HourlySeries(name, n) ==
    [name |-> name, isdict |-> TRUE, keys |-> HourlyKeys,
     vals |-> [f \in NumericFields |->
                 IF f \in HourlyFields
                 THEN [i \in 1..n |-> FieldValue(name, f, i)] ELSE <<>>],
     times |-> [i \in 1..n |-> <<"times", i>>], dates |-> <<>>]

\* one model's daily series of n timesteps (fetch_daily_weather_forecast)
DailySeries(name, n) ==
    [name |-> name, isdict |-> TRUE, keys |-> DailyKeys,
     vals |-> [f \in NumericFields |->
                 IF f \in DailyFields
                 THEN [i \in 1..n |-> FieldValue(name, f, i)] ELSE <<>>],
     times |-> <<>>, dates |-> [i \in 1..n |-> <<"dates", i>>]]

\* what the item of model `name` can be in a dataset of the given shape
ItemsOf(name, shape) ==
    {ErrorRecord(name), Malformed(name)} \cup
    {IF shape = "daily" THEN DailySeries(name, n) ELSE HourlySeries(name, n) :
        n \in 0..MaxLen}

\* the datasets of exactly k items: the first k models, in order
RECURSIVE ItemSeqsOfLen(_, _)
ItemSeqsOfLen(k, shape) ==
    IF k = 0 THEN {<<>>}
    ELSE {Append(s, e) : s \in ItemSeqsOfLen(k - 1, shape),
                         e \in ItemsOf(ModelNames[k], shape)}

ItemSeqs(shape) == UNION {ItemSeqsOfLen(k, shape) : k \in 0..MaxModels}

(***************************************************************************)
(* The argument forecast_data: a native mapping or a text                  *)
(***************************************************************************)
\* a dict as the caller passes it
NativeDict(items) == [form |-> "dict", doc |-> "object", items |-> items]

\* a list, as json.loads yields it for a JSON array
NativeList == [form |-> "list", doc |-> "array", items |-> <<>>]

\* a str: doc is what the text spells ("object": a JSON object whose members
\* are `items`, names possibly repeated; "array": another JSON value;
\* "invalid": not JSON)
Text(doc, items) == [form |-> "text", doc |-> doc, items |-> items]

\* dict construction from the members of a JSON object: a repeated name keeps
\* the place of its first member and the value of its last
RECURSIVE LastValueOf(_, _)
LastValueOf(name, members) ==
    LET n == Len(members)
    IN  IF members[n].name = name THEN members[n]
        ELSE LastValueOf(name, SubSeq(members, 1, n - 1))

RECURSIVE DictItems(_, _)
DictItems(members, k) ==
    IF k > Len(members) THEN <<>>
    ELSE IF \E j \in 1..(k - 1) : members[j].name = members[k].name
         THEN DictItems(members, k + 1)
         ELSE <<LastValueOf(members[k].name, members)>>
              \o DictItems(members, k + 1)

\* json.loads(text): raised names the exception, isdict tells a dict from
\* any other decoded value
JsonLoads(text) ==
    CASE text.doc = "invalid" ->
            [raised |-> "JSONDecodeError", isdict |-> FALSE, items |-> <<>>]
      [] text.doc = "array" ->
            [raised |-> "", isdict |-> FALSE, items |-> <<>>]
      [] OTHER ->
            [raised |-> "", isdict |-> TRUE,
             items |-> DictItems(text.items, 1)]

\* lines 47-52: the value the body works on after the isinstance(str) branch
\* (raised = "JSONDecodeError" is the branch that returns the error payload)
ParseForecastData(fd) ==
    IF fd.form = "text" THEN JsonLoads(fd)
    ELSE [raised |-> "", isdict |-> fd.form = "dict", items |-> fd.items]

(***************************************************************************)
(* Input normalisation                                                     *)
(***************************************************************************)
\* a faulty shape test: only the `dates` key
IsDailyData_DatesOnly(model_data) == "dates" \in model_data.keys

\* _is_daily_data
IsDailyData(model_data) ==
    "dates" \in model_data.keys \/ "temperature_max" \in model_data.keys

\* two faulty validity tests: one that forgets the "error" key, one that
\* forgets isinstance
IsValidModel_IgnoresErrorKey(model_data) == model_data.isdict

IsValidModel_NoDictCheck(model_data) == "error" \notin model_data.keys

\* isinstance(model_data, dict) and "error" not in model_data
IsValidModel(model_data) ==
    model_data.isdict /\ "error" \notin model_data.keys

\* the dict comprehension / loop that keeps the valid models, in order
ValidModels(items) == SelectSeq(items, IsValidModel)

\* a faulty resolution: the variable name whatever the shape
ResolveField_Identity(is_daily, variable, use_max) == variable

\* the field a variable resolves to
ResolveField(is_daily, variable, use_max) ==
    IF is_daily
    THEN CASE variable = "temperature" ->
                 IF use_max THEN "temperature_max" ELSE "temperature_min"
           [] variable = "wind_speed" -> "wind_speed_max"
           [] variable = "precipitation" -> "precipitation"
           [] OTHER -> variable
    ELSE variable

\* a faulty index: the `dates` only
TimeIndex_DatesOnly(model_data) ==
    IF "dates" \in model_data.keys THEN model_data.dates ELSE <<>>

\* model_data.get("times") or model_data.get("dates", [])
TimeIndex(model_data) ==
    IF "times" \in model_data.keys /\ model_data.times # <<>>
    THEN model_data.times
    ELSE IF "dates" \in model_data.keys THEN model_data.dates ELSE <<>>

\* a faulty selection: nothing is included once one valid model lacks the field
WithField_AllOrNothing(valid, field_name) ==
    IF \A k \in 1..Len(valid) : field_name \in valid[k].keys THEN valid ELSE <<>>

\* a faulty selection: every valid model is included
WithField_Everyone(valid, field_name) == valid

\* the models of `valid` that carry field_name, in order
RECURSIVE WithField(_, _)
WithField(valid, field_name) ==
    IF valid = <<>> THEN <<>>
    ELSE IF field_name \in Head(valid).keys
         THEN <<Head(valid)>> \o WithField(Tail(valid), field_name)
         ELSE WithField(Tail(valid), field_name)

\* [model_values[model][i] for model in model_values.keys()]
ValuesAtTime(included, field_name, i) ==
    [k \in 1..Len(included) |-> included[k].vals[field_name][i]]

ModelNamesOf(included) == [k \in 1..Len(included) |-> included[k].name]

(***************************************************************************)
(* The reducers of the statistics module of the standard library, as       *)
(* calculate_ensemble_statistics uses them.  Each yields <<num, den>>.     *)
(***************************************************************************)
\* statistics.mean(values)
MeanFrac(values) == <<SumSeq(values), Len(values)>>

\* a faulty median: the upper middle value, not averaged with the lower
MedianFrac_UpperMiddle(values) ==
    <<Sorted(values)[(Len(values) \div 2) + 1], 1>>

\* statistics.median(values)
MedianFrac(values) ==
    LET data == Sorted(values)
        n == Len(data)
    IN  IF n % 2 = 1 THEN <<data[(n \div 2) + 1], 1>>
        ELSE <<data[n \div 2] + data[(n \div 2) + 1], 2>>

\* statistics.quantiles(values, n=4)[i - 1], method "exclusive", for at least
\* two data points
QuartileFrac(values, i) ==
    LET data == Sorted(values)
        ld == Len(data)
        m == ld + 1
        j0 == (i * m) \div 4
        j == IF j0 < 1 THEN 1 ELSE IF j0 > ld - 1 THEN ld - 1 ELSE j0
        delta == i * m - j * 4
    IN  <<data[j] * (4 - delta) + data[j + 1] * delta, 4>>

\* round(statistics.stdev(values), 2) for at least two data points.  The
\* sample variance is a / b with a = n * sum(d^2) - sum(d)^2, b = n * (n - 1),
\* d the deviations from the minimum; the result counts hundredths, so it is
\* sqrt(a / (100 b)) rounded to an integer, times 10
StdevRounded2(values) ==
    LET n == Len(values)
        lo == MinSeq(values)
        d == [k \in 1..n |-> values[k] - lo]
        sq == [k \in 1..n |-> d[k] * d[k]]
        a == n * SumSeq(sq) - SumSeq(d) * SumSeq(d)
        b == n * (n - 1)
    IN  10 * SqrtRound(a \div (25 * b), 0, ((MaxSeq(values) - lo) \div 10) + 1)

\* statistics.quantiles on a single data point: StatisticsError up to
\* CPython 3.12, the data point itself from 3.13 on
Runtimes == {"cpython<=3.12", "cpython>=3.13"}
SinglePointQuantilesRaise == runtime = "cpython<=3.12"

(***************************************************************************)
(* calculate_ensemble_statistics                                           *)
(***************************************************************************)
NoStats ==
    [status |-> "error", error |-> "", exc |-> "",
     error_field |-> "", error_keys |-> {}, error_model |-> "",
     variable |-> "", field |-> "", is_daily |-> FALSE, num_models |-> 0,
     models |-> <<>>, times |-> <<>>,
     ensemble_mean |-> <<>>, ensemble_median |-> <<>>, ensemble_std |-> <<>>,
     ensemble_min |-> <<>>, ensemble_max |-> <<>>,
     percentile_25 |-> <<>>, percentile_75 |-> <<>>, spread |-> <<>>]

StatsError(kind) == [NoStats EXCEPT !.error = kind]
StatsRaise(exception) == [NoStats EXCEPT !.status = "raise", !.exc = exception]

\* a faulty spread: the distance of the maximum from the mean
Spread_AboveMean(values) ==
    Round2(Len(values) * MaxSeq(values) - SumSeq(values), Len(values))

\* lines 122-144: the statistics of one timestep
EnsembleMean(values) == Round2(MeanFrac(values)[1], MeanFrac(values)[2])
EnsembleMedian(values) == Round2(MedianFrac(values)[1], MedianFrac(values)[2])
EnsembleStd(values) == IF Len(values) > 1 THEN StdevRounded2(values) ELSE 0
EnsembleMin(values) == Round2(MinSeq(values), 1)
EnsembleMax(values) == Round2(MaxSeq(values), 1)
Percentile(values, i) ==
    IF Len(values) < 2 THEN Round2(values[1], 1)
    ELSE Round2(QuartileFrac(values, i)[1], QuartileFrac(values, i)[2])
Spread(values) == Round2(MaxSeq(values) - MinSeq(values), 1)

\* the first model whose array length differs from the first array's
RECURSIVE FirstInconsistent(_, _, _)
FirstInconsistent(included, field_name, num_timesteps) ==
    IF included = <<>> THEN ""
    ELSE IF Len(Head(included).vals[field_name]) # num_timesteps
         THEN Head(included).name
         ELSE FirstInconsistent(Tail(included), field_name, num_timesteps)

\* lines 54-146, on the items of a dict
StatsOfItems(items, variable, use_max) ==
    LET valid_models == ValidModels(items)
    IN  IF valid_models = <<>> THEN StatsError("NoValidModels")
        ELSE
        LET first_model == valid_models[1]
            is_daily == IsDailyData(first_model)
            field_name == ResolveField(is_daily, variable, use_max)
            included == WithField(valid_models, field_name)
        IN  IF included = <<>>
            THEN [StatsError("FieldNotFound") EXCEPT
                     !.error_field = field_name,
                     !.error_keys = first_model.keys]
            ELSE
            LET num_timesteps == Len(included[1].vals[field_name])
                offender == FirstInconsistent(included, field_name, num_timesteps)
                at(i) == ValuesAtTime(included, field_name, i)
                T == 1..num_timesteps
            IN  IF offender # ""
                THEN [StatsError("InconsistentTimesteps") EXCEPT
                         !.error_model = offender]
                ELSE IF /\ num_timesteps > 0
                        /\ Len(included) < 2
                        /\ SinglePointQuantilesRaise
                THEN StatsRaise("StatisticsError")
                ELSE [NoStats EXCEPT
                        !.status = "ok",
                        !.variable = variable,
                        !.field = field_name,
                        !.is_daily = is_daily,
                        !.num_models = Len(included),
                        !.models = ModelNamesOf(included),
                        !.times = TimeIndex(included[1]),
                        !.ensemble_mean = [i \in T |-> EnsembleMean(at(i))],
                        !.ensemble_median = [i \in T |-> EnsembleMedian(at(i))],
                        !.ensemble_std = [i \in T |-> EnsembleStd(at(i))],
                        !.ensemble_min = [i \in T |-> EnsembleMin(at(i))],
                        !.ensemble_max = [i \in T |-> EnsembleMax(at(i))],
                        !.percentile_25 = [i \in T |-> Percentile(at(i), 1)],
                        !.percentile_75 = [i \in T |-> Percentile(at(i), 3)],
                        !.spread = [i \in T |-> Spread(at(i))]]

\* calculate_ensemble_statistics(forecast_data, variable, use_max)
calculate_ensemble_statistics(fd, variable, use_max) ==
    LET parsed == ParseForecastData(fd)
    IN  IF parsed.raised # "" THEN StatsError("InvalidInputFormat")
        ELSE IF ~parsed.isdict THEN StatsRaise("AttributeError")
        ELSE StatsOfItems(parsed.items, variable, use_max)

(***************************************************************************)
(* calculate_daily_temperature_range_statistics                            *)
(***************************************************************************)
NoBlock ==
    [ensemble_mean |-> <<>>, spread |-> <<>>, ensemble_std |-> <<>>,
     times |-> <<>>]

NoRange ==
    [status |-> "error", error |-> "", exc |-> "",
     temperature_max |-> NoBlock, temperature_min |-> NoBlock,
     models |-> <<>>, num_models |-> 0]

RangeBlock(stats) ==
    [ensemble_mean |-> stats.ensemble_mean, spread |-> stats.spread,
     ensemble_std |-> stats.ensemble_std, times |-> stats.times]

\* lines 163-181: the payload built from the outcomes of the two calls
ComposeRange(max_stats, min_stats) ==
    IF max_stats.status = "raise"
    THEN [NoRange EXCEPT !.status = "raise", !.exc = max_stats.exc]
    ELSE IF min_stats.status = "raise"
    THEN [NoRange EXCEPT !.status = "raise", !.exc = min_stats.exc]
    ELSE IF max_stats.status = "error" \/ min_stats.status = "error"
    THEN [NoRange EXCEPT !.error = "CouldNotCalculateRange"]
    ELSE [NoRange EXCEPT
            !.status = "ok",
            !.temperature_max = RangeBlock(max_stats),
            !.temperature_min = RangeBlock(min_stats),
            !.models = max_stats.models,
            !.num_models = max_stats.num_models]

calculate_daily_temperature_range_statistics(fd) ==
    ComposeRange(calculate_ensemble_statistics(fd, "temperature", TRUE),
                 calculate_ensemble_statistics(fd, "temperature", FALSE))

(***************************************************************************)
(* calculate_model_agreement                                               *)
(***************************************************************************)
\* score >= 0.8 is high agreement, score <= 0.5 low agreement (in tenths)
HighAgreementTenths == 8
LowAgreementTenths == 5
\* the slices [:5] of the two period lists
PeriodLimit == 5

NoAgreement ==
    [status |-> "error", error |-> "", exc |-> "",
     variable |-> "", field |-> "", num_models |-> 0, models |-> <<>>,
     threshold |-> 0, mean_agreement |-> 0, min_agreement |-> 0,
     max_agreement |-> 0, high_agreement_count |-> 0,
     low_agreement_count |-> 0, high_agreement_periods |-> <<>>,
     low_agreement_periods |-> <<>>]

AgreementRaise(exception) ==
    [NoAgreement EXCEPT !.status = "raise", !.exc = exception]

\* lines 214-235: the field arrays kept in valid_models, each model's field
\* resolved from that model's own shape
RECURSIVE AgreementArrays(_, _, _)
AgreementArrays(valid, variable, use_max) ==
    IF valid = <<>> THEN <<>>
    ELSE LET model_data == Head(valid)
             field_name ==
                 ResolveField(IsDailyData(model_data), variable, use_max)
             rest == AgreementArrays(Tail(valid), variable, use_max)
         IN  IF field_name \in model_data.keys
             THEN <<[name |-> model_data.name,
                     values |-> model_data.vals[field_name]]>> \o rest
             ELSE rest

\* max(values_at_time) - min(values_at_time) at timestep i
SpreadAt(arrays, i) ==
    LET values_at_time == [k \in 1..Len(arrays) |-> arrays[k].values[i]]
    IN  MaxSeq(values_at_time) - MinSeq(values_at_time)

\* max(0.0, 1.0 - spread / (threshold * 2)) as <<num, den>> with den > 0
AgreementScore(spread, threshold) ==
    LET raw == IF threshold > 0
               THEN <<2 * threshold - spread, 2 * threshold>>
               ELSE <<spread - 2 * threshold, -(2 * threshold)>>
    IN  IF raw[1] <= 0 THEN <<0, 1>> ELSE raw

\* round(agreement_score, 3), counted in thousandths
RoundedScore(score) == Round3(1000 * score[1], score[2])

\* a faulty bucket test: > in place of >=
IsHighAgreement_Strict(score) == 10 * score[1] > HighAgreementTenths * score[2]

\* agreement_score >= 0.8 and, on the elif, agreement_score <= 0.5
IsHighAgreement(score) == 10 * score[1] >= HighAgreementTenths * score[2]
IsLowAgreement(score) == 10 * score[1] <= LowAgreementTenths * score[2]

\* times[i] if i < len(times) else f"timestep_{i}" (i counts from 0 there)
TimeLabel(times, i) == IF i <= Len(times) THEN times[i] ELSE <<"timestep_", i - 1>>

\* the entry appended for timestep i
Period(arrays, times, threshold, i) ==
    [time |-> TimeLabel(times, i),
     spread |-> Round2(SpreadAt(arrays, i), 1),
     agreement_score |->
         RoundedScore(AgreementScore(SpreadAt(arrays, i), threshold))]

\* the list a timestep's entry is appended to
Bucket(score) ==
    IF IsHighAgreement(score) THEN "high"
    ELSE IF IsLowAgreement(score) THEN "low" ELSE "none"

\* the entries of the timesteps from i on that fall in `bucket`, in order
RECURSIVE PeriodsFrom(_, _, _, _, _, _)
PeriodsFrom(arrays, times, threshold, i, n, bucket) ==
    IF i > n THEN <<>>
    ELSE LET rest == PeriodsFrom(arrays, times, threshold, i + 1, n, bucket)
         IN  IF Bucket(AgreementScore(SpreadAt(arrays, i), threshold)) = bucket
             THEN <<Period(arrays, times, threshold, i)>> \o rest
             ELSE rest

\* a faulty slice: the last n entries, list[-5:]
FirstN_Last(list, n) ==
    SubSeq(list, IF Len(list) < n THEN 1 ELSE Len(list) - n + 1, Len(list))

\* list[:5]
FirstN(list, n) == SubSeq(list, 1, IF Len(list) < n THEN Len(list) ELSE n)

\* faulty aggregates: over the scores of the listed periods only
AggregatedScores_Listed(agreement_scores, high, low) ==
    LET listed == FirstN(high, PeriodLimit) \o FirstN(low, PeriodLimit)
    IN  IF listed = <<>> THEN agreement_scores
        ELSE [j \in 1..Len(listed) |-> listed[j].agreement_score]

\* lines 280-282: the scores mean_agreement, min_agreement and max_agreement
\* range over: agreement_scores, which has one entry per timestep
AggregatedScores(agreement_scores, high, low) == agreement_scores

\* lines 210-287, on the items of a dict
AgreementOfItems(items, variable, threshold, use_max) ==
    LET valid == ValidModels(items)
        arrays == AgreementArrays(valid, variable, use_max)
    IN  IF Len(arrays) < 2
        THEN [NoAgreement EXCEPT !.error = "InsufficientModels"]
        ELSE
        LET num_timesteps == Len(arrays[1].values)
            times == TimeIndex(valid[1])
            shortest == MinSeq([k \in 1..Len(arrays) |-> Len(arrays[k].values)])
            agreement_scores ==
                [i \in 1..num_timesteps |->
                    RoundedScore(AgreementScore(SpreadAt(arrays, i), threshold))]
            high == PeriodsFrom(arrays, times, threshold, 1, num_timesteps,
                                "high")
            low == PeriodsFrom(arrays, times, threshold, 1, num_timesteps,
                               "low")
        IN  IF num_timesteps > 0 /\ shortest = 0
            THEN AgreementRaise("IndexError")
            ELSE IF num_timesteps > 0 /\ threshold = 0
            THEN AgreementRaise("ZeroDivisionError")
            ELSE IF shortest < num_timesteps
            THEN AgreementRaise("IndexError")
            ELSE IF num_timesteps = 0
            THEN AgreementRaise("StatisticsError")
            ELSE [NoAgreement EXCEPT
                    !.status = "ok",
                    !.variable = variable,
                    !.field = ResolveField(IsDailyData(valid[Len(valid)]),
                                           variable, use_max),
                    !.num_models = Len(arrays),
                    !.models = [k \in 1..Len(arrays) |-> arrays[k].name],
                    !.threshold = threshold,
                    !.mean_agreement =
                        Round3(SumSeq(AggregatedScores(agreement_scores,
                                                       high, low)),
                               Len(AggregatedScores(agreement_scores,
                                                    high, low))),
                    !.min_agreement =
                        MinSeq(AggregatedScores(agreement_scores, high, low)),
                    !.max_agreement =
                        MaxSeq(AggregatedScores(agreement_scores, high, low)),
                    !.high_agreement_count = Len(high),
                    !.low_agreement_count = Len(low),
                    !.high_agreement_periods = FirstN(high, PeriodLimit),
                    !.low_agreement_periods = FirstN(low, PeriodLimit)]

\* calculate_model_agreement(forecast_data, variable, threshold, use_max)
calculate_model_agreement(fd, variable, threshold, use_max) ==
    LET parsed == ParseForecastData(fd)
    IN  IF parsed.raised # ""
        THEN [NoAgreement EXCEPT !.error = "InvalidInputFormat"]
        ELSE IF ~parsed.isdict THEN AgreementRaise("AttributeError")
        ELSE AgreementOfItems(parsed.items, variable, threshold, use_max)

(***************************************************************************)
(* summarize_forecast_uncertainty                                          *)
(***************************************************************************)
\* average spread below which a tier is "low" / "moderate", in thousandths
TemperatureLow == 3000
TemperatureModerate == 7000
WindLow == 3000
WindModerate == 8000
PrecipitationLow == 50
PrecipitationModerate == 200

Tiers ==
    {"temperature", "precipitation", "wind_speed",
     "temperature_max", "temperature_min", "wind_speed_max"}

NoTier ==
    [present |-> FALSE, average_spread |-> 0, max_spread |-> 0,
     average_std_dev |-> 0, uncertainty_level |-> ""]

NoSummary ==
    [status |-> "error", error |-> "", exc |-> "",
     num_models |-> 0, models |-> <<>>, variables |-> [t \in Tiers |-> NoTier]]

SummaryRaise(exception) ==
    [NoSummary EXCEPT !.status = "raise", !.exc = exception]

\* faulty levels: <= in place of <
UncertaintyLevel_Inclusive(avg, low, moderate) ==
    IF avg[1] <= low * avg[2] THEN "low"
    ELSE IF avg[1] <= moderate * avg[2] THEN "moderate" ELSE "high"

\* "low" if avg_spread < low else "moderate" if avg_spread < moderate else
\* "high", avg_spread being the fraction avg[1] / avg[2]
UncertaintyLevel(avg, low, moderate) ==
    IF avg[1] < low * avg[2] THEN "low"
    ELSE IF avg[1] < moderate * avg[2] THEN "moderate" ELSE "high"

\* the entry stored for a tier from a successful statistics result with at
\* least one timestep
TierEntry(stats, low, moderate) ==
    LET avg_spread == MeanFrac(stats.spread)
        avg_std == MeanFrac(stats.ensemble_std)
    IN  [present |-> TRUE,
         average_spread |-> Round2(avg_spread[1], avg_spread[2]),
         max_spread |-> Round2(MaxSeq(stats.spread), 1),
         average_std_dev |-> Round2(avg_std[1], avg_std[2]),
         uncertainty_level |-> UncertaintyLevel(avg_spread, low, moderate)]

\* the calls of calculate_ensemble_statistics in the order the body makes
\* them, each with the tier it fills and the thresholds it applies
TierCalls(is_daily) ==
    IF is_daily
    THEN << [tier |-> "temperature_max", variable |-> "temperature",
             use_max |-> TRUE, low |-> TemperatureLow,
             moderate |-> TemperatureModerate],
            [tier |-> "temperature_min", variable |-> "temperature",
             use_max |-> FALSE, low |-> TemperatureLow,
             moderate |-> TemperatureModerate],
            [tier |-> "wind_speed_max", variable |-> "wind_speed",
             use_max |-> TRUE, low |-> WindLow, moderate |-> WindModerate],
            [tier |-> "precipitation", variable |-> "precipitation",
             use_max |-> TRUE, low |-> PrecipitationLow,
             moderate |-> PrecipitationModerate] >>
    ELSE << [tier |-> "temperature", variable |-> "temperature",
             use_max |-> TRUE, low |-> TemperatureLow,
             moderate |-> TemperatureModerate],
            [tier |-> "precipitation", variable |-> "precipitation",
             use_max |-> TRUE, low |-> PrecipitationLow,
             moderate |-> PrecipitationModerate],
            [tier |-> "wind_speed", variable |-> "wind_speed",
             use_max |-> TRUE, low |-> WindLow, moderate |-> WindModerate],
            [tier |-> "precipitation", variable |-> "precipitation",
             use_max |-> TRUE, low |-> PrecipitationLow,
             moderate |-> PrecipitationModerate] >>

\* runs the calls from the k-th on, on the summary built so far
RECURSIVE RunTierCalls(_, _, _, _)
RunTierCalls(items, calls, k, summary) ==
    IF k > Len(calls) \/ summary.status = "raise" THEN summary
    ELSE LET c == calls[k]
             stats == StatsOfItems(items, c.variable, c.use_max)
         IN  IF stats.status = "raise"
             THEN SummaryRaise(stats.exc)
             ELSE IF stats.status = "error"
             THEN RunTierCalls(items, calls, k + 1, summary)
             ELSE IF stats.spread = <<>>
             THEN SummaryRaise("StatisticsError")
             ELSE RunTierCalls(items, calls, k + 1,
                     [summary EXCEPT !.variables[c.tier] =
                         TierEntry(stats, c.low, c.moderate)])

\* lines 309-423, on the items of a dict
SummaryOfItems(items) ==
    LET valid == ValidModels(items)
    IN  IF valid = <<>> THEN [NoSummary EXCEPT !.error = "NoValidModels"]
        ELSE RunTierCalls(items, TierCalls(IsDailyData(valid[1])), 1,
                 [NoSummary EXCEPT !.status = "ok",
                                   !.num_models = Len(valid),
                                   !.models = ModelNamesOf(valid)])

\* summarize_forecast_uncertainty(forecast_data)
summarize_forecast_uncertainty(fd) ==
    LET parsed == ParseForecastData(fd)
    IN  IF parsed.raised # ""
        THEN [NoSummary EXCEPT !.error = "InvalidInputFormat"]
        ELSE IF ~parsed.isdict THEN SummaryRaise("AttributeError")
        ELSE SummaryOfItems(parsed.items)

(***************************************************************************)
(* The state machine: a caller holding one dataset invokes one of the four *)
(* functions, takes the outcome, and may invoke again, any number of times *)
(***************************************************************************)
Shapes == {"hourly", "daily"}

\* threshold arguments, in thousandths (5.0 is the default)
Thresholds == {-5000, 0, 2000, 5000}

\* the members of a JSON object that spells a dataset, and of one that
\* repeats the name of its first member
TextMembers ==
    (UNION {ItemSeqsOfLen(k, shape) :
                k \in 0..MaxTextMembers, shape \in Shapes}) \cup
    {<<a, b>> : a \in ItemsOf(ModelNames[1], "hourly"),
                b \in ItemsOf(ModelNames[1], "hourly")}

ForecastInputs ==
    {NativeDict(items) : items \in UNION {ItemSeqs(shape) : shape \in Shapes}}
    \cup {Text("object", members) : members \in TextMembers}
    \cup {Text("invalid", <<>>), Text("array", <<>>)}

NoCall == [fn |-> "none", variable |-> "", threshold |-> 0, use_max |-> FALSE]

NoResult ==
    [stats |-> NoStats, daily_range |-> NoRange,
     agreement |-> NoAgreement, summary |-> NoSummary]

NoResponse == [stop_reason |-> "", content |-> <<>>]

\* no run of the agent is in progress
NoRun ==
    /\ messages = <<>>
    /\ iteration = 0
    /\ max_iterations = 0
    /\ response = NoResponse
    /\ tool_log = <<>>
    /\ returned = ""
    /\ pc = "idle"

Init ==
    /\ forecast_data \in ForecastInputs
    /\ runtime \in Runtimes
    /\ call = NoCall
    /\ result = NoResult
    /\ NoRun

CallStatistics ==
    \E variable \in Variables, use_max \in BOOLEAN :
        /\ call.fn = "none"
        /\ call' = [NoCall EXCEPT !.fn = "calculate_ensemble_statistics",
                                  !.variable = variable, !.use_max = use_max]
        /\ result' = [NoResult EXCEPT !.stats =
               calculate_ensemble_statistics(forecast_data, variable, use_max)]
        /\ UNCHANGED <<forecast_data, runtime>>
        /\ UNCHANGED run_vars

CallDailyRange ==
    /\ call.fn = "none"
    /\ call' = [NoCall EXCEPT
                  !.fn = "calculate_daily_temperature_range_statistics"]
    /\ result' = [NoResult EXCEPT !.daily_range =
           calculate_daily_temperature_range_statistics(forecast_data)]
    /\ UNCHANGED <<forecast_data, runtime>>
    /\ UNCHANGED run_vars

CallAgreement ==
    \E variable \in Variables, threshold \in Thresholds, use_max \in BOOLEAN :
        /\ call.fn = "none"
        /\ call' = [NoCall EXCEPT !.fn = "calculate_model_agreement",
                                  !.variable = variable,
                                  !.threshold = threshold,
                                  !.use_max = use_max]
        /\ result' = [NoResult EXCEPT !.agreement =
               calculate_model_agreement(forecast_data, variable, threshold,
                                         use_max)]
        /\ UNCHANGED <<forecast_data, runtime>>
        /\ UNCHANGED run_vars

CallSummary ==
    /\ call.fn = "none"
    /\ call' = [NoCall EXCEPT !.fn = "summarize_forecast_uncertainty"]
    /\ result' = [NoResult EXCEPT !.summary =
           summarize_forecast_uncertainty(forecast_data)]
    /\ UNCHANGED <<forecast_data, runtime>>
    /\ UNCHANGED run_vars

\* the caller has taken the outcome of the invocation
Return ==
    /\ call.fn # "none"
    /\ call' = NoCall
    /\ result' = NoResult
    /\ UNCHANGED <<forecast_data, runtime>>
    /\ UNCHANGED run_vars

Next ==
    \/ CallStatistics
    \/ CallDailyRange
    \/ CallAgreement
    \/ CallSummary
    \/ Return

Spec == Init /\ [][Next]_vars

(***************************************************************************)
(* Vocabulary of the properties                                            *)
(***************************************************************************)
StatsFn == "calculate_ensemble_statistics"
RangeFn == "calculate_daily_temperature_range_statistics"
AgreementFn == "calculate_model_agreement"
SummaryFn == "summarize_forecast_uncertainty"

\* forecast_data denotes a mapping: a dict, or a text that decodes to one
IsMapping ==
    /\ ParseForecastData(forecast_data).raised = ""
    /\ ParseForecastData(forecast_data).isdict

\* forecast_data is a dataset: a mapping, or a text that is not the
\* encoding of some other JSON value
IsDatasetInput == IsMapping \/ ParseForecastData(forecast_data).raised # ""

\* the items of that mapping
Dataset == ParseForecastData(forecast_data).items

\* { error: string }
IsErrorRecord(item) == item.isdict /\ "error" \in item.keys
IsNoErrorRecord(item) == ~IsErrorRecord(item)

\* the valid models of the dataset that carry the field the variable
\* resolves to under the shape of the first valid model
Carriers(variable, use_max) ==
    LET valid == SelectSeq(Dataset, LAMBDA e : e.isdict /\ "error" \notin e.keys)
    IN  IF valid = <<>> THEN <<>>
        ELSE SelectSeq(valid, LAMBDA e :
                 ResolveField(IsDailyData(valid[1]), variable, use_max)
                     \in e.keys)

\* the status of the invocation the caller is holding the outcome of
Outcome ==
    CASE call.fn = StatsFn -> result.stats.status
      [] call.fn = RangeFn -> result.daily_range.status
      [] call.fn = AgreementFn -> result.agreement.status
      [] call.fn = SummaryFn -> result.summary.status
      [] OTHER -> "none"

OutcomeError ==
    CASE call.fn = StatsFn -> result.stats.error
      [] call.fn = RangeFn -> result.daily_range.error
      [] call.fn = AgreementFn -> result.agreement.error
      [] call.fn = SummaryFn -> result.summary.error
      [] OTHER -> ""

\* the outcome of the invocation in `call`, had it been given fd
OutcomeOn(fd) ==
    [NoResult EXCEPT
        !.stats = IF call.fn = StatsFn
                  THEN calculate_ensemble_statistics(fd, call.variable,
                                                     call.use_max)
                  ELSE NoStats,
        !.daily_range = IF call.fn = RangeFn
                        THEN calculate_daily_temperature_range_statistics(fd)
                        ELSE NoRange,
        !.agreement = IF call.fn = AgreementFn
                      THEN calculate_model_agreement(fd, call.variable,
                               call.threshold, call.use_max)
                      ELSE NoAgreement,
        !.summary = IF call.fn = SummaryFn
                    THEN summarize_forecast_uncertainty(fd)
                    ELSE NoSummary]

(***************************************************************************)
(* C1 .. C10                                                               *)
(***************************************************************************)

\* C1: for every dataset (native or text-encoded), variable, use_max and
\* threshold, every invocation of the four functions ends by returning a
\* success payload or a payload with an `error` key; no exception crosses
\* the interface.
C1_NoExceptionCrossesInterface ==
    IsDatasetInput => Outcome \in {"none", "ok", "error"}

\* C2: in every success result of calculate_ensemble_statistics, at every
\* timestep, ensemble_min <= percentile_25 <= ensemble_median <=
\* percentile_75 <= ensemble_max.
C2_OrderStatisticMonotonicity ==
    (call.fn = StatsFn /\ result.stats.status = "ok") =>
        \A i \in 1..Len(result.stats.ensemble_mean) :
            /\ result.stats.ensemble_min[i] <= result.stats.percentile_25[i]
            /\ result.stats.percentile_25[i] <= result.stats.ensemble_median[i]
            /\ result.stats.ensemble_median[i] <= result.stats.percentile_75[i]
            /\ result.stats.percentile_75[i] <= result.stats.ensemble_max[i]

\* C3: when exactly one valid model carries the resolved field,
\* calculate_ensemble_statistics returns a success payload with num_models = 1
\* and ensemble_std[i] = 0 at every timestep.
C3_SingleModelSucceedsWithZeroStd ==
    ( /\ call.fn = StatsFn
      /\ IsMapping
      /\ Len(Carriers(call.variable, call.use_max)) = 1 ) =>
        /\ result.stats.status = "ok"
        /\ result.stats.num_models = 1
        /\ Len(result.stats.ensemble_std) =
             Len(Carriers(call.variable, call.use_max)[1].vals[result.stats.field])
        /\ \A i \in 1..Len(result.stats.ensemble_std) :
               result.stats.ensemble_std[i] = 0

\* the dataset with the item at position p left out
RemoveAt(items, p) ==
    [i \in 1..(Len(items) - 1) |-> IF i < p THEN items[i] ELSE items[i + 1]]

\* the dataset with item put in front of position p (p = Len + 1 appends)
InsertAt(items, p, item) ==
    [i \in 1..(Len(items) + 1) |->
        IF i < p THEN items[i] ELSE IF i = p THEN item ELSE items[i - 1]]

\* C4: for calculate_ensemble_statistics, calculate_model_agreement and
\* summarize_forecast_uncertainty, the outcome on a dataset is the outcome on
\* the same dataset with one ErrorRecord inserted anywhere, with any one of
\* its ErrorRecords removed, and with all of them removed: failed members
\* neither change a success payload nor turn a success into an error.
C4_GracefulDegradation ==
    (IsMapping /\ call.fn \in {StatsFn, AgreementFn, SummaryFn}) =>
        LET items == Dataset
        IN  /\ result = OutcomeOn(NativeDict(SelectSeq(items, IsNoErrorRecord)))
            /\ \A p \in 1..Len(items) :
                   IsErrorRecord(items[p]) =>
                       result = OutcomeOn(NativeDict(RemoveAt(items, p)))
            /\ \A p \in 1..(Len(items) + 1) :
                   result = OutcomeOn(NativeDict(
                                InsertAt(items, p, ErrorRecord("failed_model"))))

\* C4 witness: a success of calculate_model_agreement on a dataset holding an
\* ErrorRecord in front of its valid models.
C4_Witness ==
    /\ call.fn = AgreementFn
    /\ IsMapping
    /\ Len(Dataset) = 3
    /\ IsErrorRecord(Dataset[1])
    /\ result.agreement.status = "ok"
    /\ result.agreement.num_models = 2

\* C5: calculate_ensemble_statistics returns the NoValidModels error payload,
\* and computes nothing, exactly when every entry of the dataset is an
\* ErrorRecord or malformed (the empty dataset included).
C5_NoValidModelsExactly ==
    (call.fn = StatsFn /\ IsMapping) =>
        /\ (result.stats.status = "error" /\ result.stats.error = "NoValidModels")
               <=> (\A p \in 1..Len(Dataset) :
                        ~Dataset[p].isdict \/ IsErrorRecord(Dataset[p]))
        /\ result.stats.error = "NoValidModels" =>
               /\ result.stats.num_models = 0
               /\ result.stats.ensemble_mean = <<>>
               /\ result.stats.spread = <<>>

\* C5 witness: the NoValidModels payload on a dataset of one ErrorRecord and
\* one malformed entry.
C5_Witness ==
    /\ call.fn = StatsFn
    /\ IsMapping
    /\ Len(Dataset) = 2
    /\ IsErrorRecord(Dataset[1])
    /\ ~Dataset[2].isdict
    /\ result.stats.error = "NoValidModels"

\* C6: calculate_model_agreement returns the InsufficientModels error payload
\* exactly when fewer than 2 valid models carry the resolved field, and a
\* success payload with num_models >= 2 otherwise.
C6_InsufficientModelsExactly ==
    (call.fn = AgreementFn /\ IsMapping) =>
        IF Len(Carriers(call.variable, call.use_max)) < 2
        THEN /\ result.agreement.status = "error"
             /\ result.agreement.error = "InsufficientModels"
        ELSE /\ result.agreement.status = "ok"
             /\ result.agreement.num_models >= 2

\* C7: for a text dataset and each of the four functions: a text that does not
\* decode yields the InvalidInputFormat error payload, and a text that decodes
\* yields the outcome of the same call on the decoded object.
C7_TextEquivalence ==
    (call.fn # "none" /\ forecast_data.form = "text") =>
        IF JsonLoads(forecast_data).raised # ""
        THEN Outcome = "error" /\ OutcomeError = "InvalidInputFormat"
        ELSE result = OutcomeOn(IF JsonLoads(forecast_data).isdict
                                THEN NativeDict(JsonLoads(forecast_data).items)
                                ELSE NativeList)

\* the field arrays the invocation in `call` compares
Compared == AgreementArrays(ValidModels(Dataset), call.variable, call.use_max)

\* the number of timesteps it walks: the length of the first array
NumTimesteps == IF Compared = <<>> THEN 0 ELSE Len(Compared[1].values)

\* the time labels it reports: those of the first valid model
Labels == TimeIndex(ValidModels(Dataset)[1])

\* the spread and the score of every timestep, the score as a fraction
SpreadsOf(arrays) ==
    IF arrays = <<>> THEN <<>>
    ELSE [i \in 1..Len(arrays[1].values) |-> SpreadAt(arrays, i)]

ScoresOf(spreads, threshold) ==
    [i \in 1..Len(spreads) |-> AgreementScore(spreads[i], threshold)]

Spreads == SpreadsOf(Compared)

Scores == ScoresOf(Spreads, call.threshold)

AgreementSucceeded ==
    call.fn = AgreementFn /\ IsMapping /\ result.agreement.status = "ok"

\* C8: every agreement score calculate_model_agreement reports lies in [0, 1],
\* for every dataset and every threshold the function accepts: the per-period
\* scores, min_agreement, max_agreement and mean_agreement.
C8_ScoresInUnitInterval ==
    AgreementSucceeded =>
        /\ \A i \in 1..Len(Scores) :
               0 <= Scores[i][1] /\ Scores[i][1] <= Scores[i][2]
        /\ \A i \in 1..Len(result.agreement.high_agreement_periods) :
               result.agreement.high_agreement_periods[i].agreement_score
                   \in 0..1000
        /\ \A i \in 1..Len(result.agreement.low_agreement_periods) :
               result.agreement.low_agreement_periods[i].agreement_score
                   \in 0..1000
        /\ result.agreement.min_agreement \in 0..1000
        /\ result.agreement.max_agreement \in 0..1000
        /\ result.agreement.mean_agreement \in 0..1000

\* max(0, 1 - spread / (2 * threshold)) as a fraction, for threshold > 0
ExpectedScore(spread, threshold) ==
    IF spread >= 2 * threshold THEN <<0, 1>>
    ELSE <<2 * threshold - spread, 2 * threshold>>

SameFraction(a, b) == a[1] * b[2] = b[1] * a[2]

\* a >= b for fractions with positive denominators
FractionGeq(a, b) == a[1] * b[2] >= b[1] * a[2]

\* the four properties of the score at the timesteps of one invocation
ScoreLaw ==
    LET spreads == Spreads
        scores == ScoresOf(spreads, call.threshold)
    IN  /\ \A i \in 1..Len(scores) :
               /\ SameFraction(scores[i],
                               ExpectedScore(spreads[i], call.threshold))
               /\ scores[i][2] > 0
               /\ (scores[i][1] = scores[i][2]) <=> (spreads[i] = 0)
               /\ spreads[i] >= 2 * call.threshold => scores[i][1] = 0
        /\ \A i, j \in 1..Len(scores) :
               spreads[i] <= spreads[j] => FractionGeq(scores[i], scores[j])
        /\ result.agreement.min_agreement =
               MinSeq([i \in 1..Len(scores) |->
                   Round3(1000 * ExpectedScore(spreads[i], call.threshold)[1],
                          ExpectedScore(spreads[i], call.threshold)[2])])

\* C9: the score of a timestep is max(0, 1 - spread / (2 * threshold)); for a
\* fixed threshold it does not increase with spread, it is 1 exactly when
\* spread = 0, and it is 0 whenever spread >= 2 * threshold.
C9_ScoreFormula == AgreementSucceeded => ScoreLaw

\* C9, for the thresholds that are distances: the same holds whenever
\* threshold > 0.
C9_ScoreFormulaPositiveThreshold ==
    (AgreementSucceeded /\ call.threshold > 0) => ScoreLaw

\* spreads 4 and 2 under threshold 5 score 0.6 and 0.8
C9_PositiveThresholdExample ==
    /\ AgreementSucceeded
    /\ call.threshold = 5000
    /\ Spreads = <<4000, 2000>>
    /\ result.agreement.min_agreement = 600
    /\ result.agreement.max_agreement = 800

\* timesteps by bucket, from the definition of the buckets
HighSteps(scores) ==
    {i \in 1..Len(scores) : 10 * scores[i][1] >= 8 * scores[i][2]}

LowSteps(scores) ==
    {i \in 1..Len(scores) : 10 * scores[i][1] <= 5 * scores[i][2]}

MiddleSteps(scores) ==
    {i \in 1..Len(scores) : /\ 10 * scores[i][1] > 5 * scores[i][2]
                            /\ 10 * scores[i][1] < 8 * scores[i][2]}

\* the first n members of a set of timesteps
Earliest(steps, n) == {h \in steps : Cardinality({g \in steps : g < h}) < n}

PeriodTimes(periods) == {periods[i].time : i \in 1..Len(periods)}

\* C10: a timestep is high-agreement iff its score >= 0.8, low-agreement iff
\* its score <= 0.5 and in neither bucket iff 0.5 < score < 0.8; no timestep
\* is in both, and high_agreement_count + low_agreement_count <=
\* num_timesteps.
C10_Classification ==
    AgreementSucceeded =>
        LET scores == Scores
            high == HighSteps(scores)
            low == LowSteps(scores)
            labels == Labels
            outcome == result.agreement
        IN  /\ outcome.high_agreement_count = Cardinality(high)
            /\ outcome.low_agreement_count = Cardinality(low)
            /\ Len(scores) - outcome.high_agreement_count
                   - outcome.low_agreement_count
                   = Cardinality(MiddleSteps(scores))
            /\ high \cap low = {}
            /\ outcome.high_agreement_count + outcome.low_agreement_count
                   <= Len(scores)
            /\ PeriodTimes(outcome.high_agreement_periods)
                   = {TimeLabel(labels, i) : i \in Earliest(high, PeriodLimit)}
            /\ PeriodTimes(outcome.low_agreement_periods)
                   = {TimeLabel(labels, i) : i \in Earliest(low, PeriodLimit)}
            /\ PeriodTimes(outcome.high_agreement_periods)
                   \cap PeriodTimes(outcome.low_agreement_periods) = {}

\* C10 witness: one timestep at exactly 0.8 (high) and one at 0.6 (neither).
C10_Witness ==
    /\ AgreementSucceeded
    /\ call.threshold = 5000
    /\ Spreads = <<4000, 2000>>
    /\ result.agreement.high_agreement_count = 1
    /\ result.agreement.low_agreement_count = 0
    /\ NumTimesteps = 2
    /\ HighSteps(Scores) = {2}
    /\ MiddleSteps(Scores) = {1}

(***************************************************************************)
(* Datasets of mixed and partial shape: hourly and daily members side by   *)
(* side, and members that lack some of the keys of their shape             *)
(***************************************************************************)
\* largest number of items of such a dataset
MaxMixedModels == 2

\* a series without some of its keys
Without(series, absent) == [series EXCEPT !.keys = @ \ absent]

\* the sets of keys a daily and an hourly member can lack
DailyGaps ==
    {{"dates"}, {"temperature_max"}, {"temperature_min"},
     {"dates", "temperature_max"}}

HourlyGaps == {{"temperature"}}

\* what the item of model `name` can be
MixedItemsOf(name) ==
    {ErrorRecord(name), Malformed(name)}
    \cup {HourlySeries(name, n) : n \in 1..MaxLen}
    \cup {DailySeries(name, n) : n \in 1..MaxLen}
    \cup {Without(DailySeries(name, MaxLen), absent) : absent \in DailyGaps}
    \cup {Without(HourlySeries(name, MaxLen), absent) : absent \in HourlyGaps}

RECURSIVE MixedItemSeqsOfLen(_)
MixedItemSeqsOfLen(k) ==
    IF k = 0 THEN {<<>>}
    ELSE {Append(s, e) : s \in MixedItemSeqsOfLen(k - 1),
                         e \in MixedItemsOf(ModelNames[k])}

MixedInputs ==
    {NativeDict(items) :
        items \in UNION {MixedItemSeqsOfLen(k) : k \in 0..MaxMixedModels}}

InitMixed ==
    /\ forecast_data \in MixedInputs
    /\ runtime \in Runtimes
    /\ call = NoCall
    /\ result = NoResult
    /\ NoRun

SpecMixed == InitMixed /\ [][Next]_vars

(***************************************************************************)
(* C11 .. C20                                                              *)
(***************************************************************************)
\* the entries of the dataset that are mappings without an `error` key
ValidEntries == SelectSeq(Dataset, LAMBDA e : e.isdict /\ "error" \notin e.keys)

\* the first valid model has the key `dates` or the key `temperature_max`
FirstValidIsDaily ==
    /\ ValidEntries # <<>>
    /\ \/ "dates" \in ValidEntries[1].keys
       \/ "temperature_max" \in ValidEntries[1].keys

\* the table of the field names
ExpectedField(daily, variable, use_max) ==
    IF ~daily THEN variable
    ELSE IF variable = "temperature"
         THEN (IF use_max THEN "temperature_max" ELSE "temperature_min")
    ELSE IF variable = "wind_speed" THEN "wind_speed_max"
    ELSE IF variable = "precipitation" THEN "precipitation"
    ELSE variable

StatsSucceeded ==
    call.fn = StatsFn /\ IsMapping /\ result.stats.status = "ok"

\* C11: calculate_ensemble_statistics resolves the field by the table: the
\* variable name for an hourly dataset; for a daily one temperature_max or
\* temperature_min by use_max, wind_speed_max and precipitation.  The `field`
\* of the result (and the field a FieldNotFound error names) is that name,
\* and outside daily temperature use_max changes nothing of the outcome.
C11_FieldResolution ==
    (call.fn = StatsFn /\ IsMapping) =>
        LET expected == ExpectedField(FirstValidIsDaily, call.variable,
                                      call.use_max)
        IN  /\ result.stats.status = "ok" => result.stats.field = expected
            /\ result.stats.error = "FieldNotFound" =>
                   result.stats.error_field = expected
            /\ ~(FirstValidIsDaily /\ call.variable = "temperature") =>
                   result.stats = calculate_ensemble_statistics(
                       forecast_data, call.variable, ~call.use_max)

\* C11 witness: a success on a daily dataset, wind_speed resolved to
\* wind_speed_max, in front of an hourly member that is left out.
C11_Witness ==
    /\ StatsSucceeded
    /\ call.variable = "wind_speed"
    /\ FirstValidIsDaily
    /\ Len(ValidEntries) = 2
    /\ "times" \in ValidEntries[2].keys
    /\ result.stats.field = "wind_speed_max"
    /\ result.stats.num_models = 1

\* C12: the is_daily of a success result of calculate_ensemble_statistics is
\* true exactly when the first valid model in iteration order has the key
\* `dates` or the key `temperature_max`.
C12_ShapeOfFirstValidModel ==
    StatsSucceeded => (result.stats.is_daily <=> FirstValidIsDaily)

\* C12 witness: a first valid model with temperature_max and without dates,
\* behind an ErrorRecord, classified daily.
C12_Witness ==
    /\ StatsSucceeded
    /\ IsErrorRecord(Dataset[1])
    /\ "temperature_max" \in ValidEntries[1].keys
    /\ "dates" \notin ValidEntries[1].keys
    /\ result.stats.is_daily

\* C12, the other side: a first valid model with dates-less, max-less daily
\* fields is classified hourly.
C12_HourlyExample ==
    /\ StatsSucceeded
    /\ "temperature_min" \in ValidEntries[1].keys
    /\ ~FirstValidIsDaily
    /\ ~result.stats.is_daily

\* the valid models the result was computed from: those with its field
Included ==
    SelectSeq(ValidEntries, LAMBDA e : result.stats.field \in e.keys)

\* the ModelSeries length invariant: an index (`times`, or `dates`) is
\* there and every numeric sequence is as long as it
SatisfiesLengthInvariant(e) ==
    /\ "times" \in e.keys \/ "dates" \in e.keys
    /\ \A f \in NumericFields \cap e.keys :
           Len(e.vals[f]) = Len(IF "times" \in e.keys THEN e.times ELSE e.dates)

PerTimestepLengths ==
    {Len(result.stats.ensemble_mean), Len(result.stats.ensemble_median),
     Len(result.stats.ensemble_std), Len(result.stats.ensemble_min),
     Len(result.stats.ensemble_max), Len(result.stats.percentile_25),
     Len(result.stats.percentile_75), Len(result.stats.spread)}

\* C13: in every success result of calculate_ensemble_statistics the eight
\* per-timestep arrays have one length, that of the included models' field
\* arrays, and when every valid model keeps the ModelSeries length invariant
\* that is the length of the echoed `times` too.
C13_ArrayLengths ==
    StatsSucceeded =>
        /\ Included # <<>>
        /\ \A k \in 1..Len(Included) :
               PerTimestepLengths = {Len(Included[k].vals[result.stats.field])}
        /\ (\A k \in 1..Len(ValidEntries) :
                SatisfiesLengthInvariant(ValidEntries[k]))
               => PerTimestepLengths = {Len(result.stats.times)}

\* C13 witness: two models of the shorter and the longer length cannot both
\* be included, so a success on two included models of MaxLen timesteps, the
\* index taken from the first.
C13_Witness ==
    /\ StatsSucceeded
    /\ result.stats.num_models = 2
    /\ \A k \in 1..Len(ValidEntries) : SatisfiesLengthInvariant(ValidEntries[k])
    /\ "times" \in ValidEntries[1].keys
    /\ Len(result.stats.times) = MaxLen
    /\ Len(result.stats.percentile_75) = MaxLen

\* C13, the premise matters: a first included model without index gives
\* arrays longer than the echoed `times`.
C13_NoIndexExample ==
    /\ StatsSucceeded
    /\ result.stats.times = <<>>
    /\ Len(result.stats.spread) = MaxLen

(***************************************************************************)
(* Datasets of values that are not whole hundredths, so that round(x, 2)   *)
(* changes what it is given                                                *)
(***************************************************************************)
\* what a model's temperature and wind speed are off the table by, in
\* thousandths.  The rows are multiples of 4 and the lengths below are odd,
\* so that again nothing the functions round falls half way
FineOffset(name, i) ==
    LET row == CASE name = "gfs"   -> <<4, 4, -4>>
                 [] name = "ecmwf" -> <<16, 32, 4>>
                 [] name = "gem"   -> <<-8, 24, 16>>
                 [] OTHER          -> <<32, 8, 28>>
    IN  row[((i - 1) % 3) + 1]

FineSeries(name, n) ==
    [HourlySeries(name, n) EXCEPT
        !.vals = [f \in NumericFields |->
                    IF f \in {"temperature", "wind_speed"}
                    THEN [i \in 1..n |-> FieldValue(name, f, i)
                                           + FineOffset(name, i)]
                    ELSE @[f]]]

FineLengths == {1, 3}

FineItemsOf(name) ==
    {ErrorRecord(name)} \cup {FineSeries(name, n) : n \in FineLengths}

RECURSIVE FineItemSeqsOfLen(_)
FineItemSeqsOfLen(k) ==
    IF k = 0 THEN {<<>>}
    ELSE {Append(s, e) : s \in FineItemSeqsOfLen(k - 1),
                         e \in FineItemsOf(ModelNames[k])}

FineInputs ==
    {NativeDict(items) :
        items \in UNION {FineItemSeqsOfLen(k) : k \in 0..MaxModels}}

InitFine ==
    /\ forecast_data \in FineInputs
    /\ runtime \in Runtimes
    /\ call = NoCall
    /\ result = NoResult
    /\ NoRun

SpecFine == InitFine /\ [][Next]_vars

\* |a - b|
Distance(a, b) == IF a >= b THEN a - b ELSE b - a

\* C14: in every success result of calculate_ensemble_statistics, at every
\* timestep, spread is at most 0.01 away from ensemble_max - ensemble_min
\* (each of the three rounded to 2 decimals from the unrounded values) and
\* spread >= 0.
C14_SpreadWithinTolerance ==
    StatsSucceeded =>
        \A i \in 1..Len(result.stats.spread) :
            /\ Distance(result.stats.spread[i],
                        result.stats.ensemble_max[i]
                            - result.stats.ensemble_min[i]) <= 10
            /\ result.stats.spread[i] >= 0

\* C14 witness: 50.004 and 54.016 report min 50.0, max 54.02 and spread
\* 4.01, one hundredth off the difference of the reported extremes.
C14_Witness ==
    /\ StatsSucceeded
    /\ call.variable = "temperature"
    /\ result.stats.num_models = 2
    /\ result.stats.ensemble_min[1] = 50000
    /\ result.stats.ensemble_max[1] = 54020
    /\ result.stats.spread[1] = 4010

\* the included models' values at timestep i
IncludedValues(i) ==
    [k \in 1..Len(Included) |-> Included[k].vals[result.stats.field][i]]

\* r is num/den rounded to 2 decimals: a whole number of hundredths at most
\* half a hundredth away
IsRounded2(r, num, den) ==
    r % 10 = 0 /\ 2 * Distance(r * den, num) <= 10 * den

\* x is the k-th smallest of the values
IsKthSmallest(x, values, k) ==
    /\ \E j \in 1..Len(values) : values[j] = x
    /\ Cardinality({j \in 1..Len(values) : values[j] < x}) < k
    /\ k <= Cardinality({j \in 1..Len(values) : values[j] <= x})

KthSmallest(values, k) ==
    CHOOSE x \in {values[j] : j \in 1..Len(values)} :
        IsKthSmallest(x, values, k)

\* twice the median: twice the middle value, or the sum of the two middle ones
TwiceMedian(values) ==
    LET n == Len(values)
    IN  IF n % 2 = 1 THEN 2 * KthSmallest(values, (n + 1) \div 2)
        ELSE KthSmallest(values, n \div 2)
                 + KthSmallest(values, (n \div 2) + 1)

\* C15: at every timestep of a success result of
\* calculate_ensemble_statistics, ensemble_mean, ensemble_median,
\* ensemble_min and ensemble_max are the arithmetic mean, the median, the
\* least and the greatest of the included models' values at that timestep,
\* rounded to 2 decimals.
C15_CentralValues ==
    StatsSucceeded =>
        \A i \in 1..Len(result.stats.ensemble_mean) :
            LET values == IncludedValues(i)
                n == Len(values)
                range == {values[j] : j \in 1..n}
            IN  /\ IsRounded2(result.stats.ensemble_mean[i], SumSeq(values), n)
                /\ IsRounded2(result.stats.ensemble_median[i],
                              TwiceMedian(values), 2)
                /\ \E x \in range :
                       /\ \A y \in range : x <= y
                       /\ IsRounded2(result.stats.ensemble_min[i], x, 1)
                /\ \E x \in range :
                       /\ \A y \in range : x >= y
                       /\ IsRounded2(result.stats.ensemble_max[i], x, 1)

\* C15 witness: gfs temperature [50, 52] and ecmwf temperature [54, 50] give
\* ensemble_mean [52.0, 51.0], ensemble_min [50, 50], ensemble_max [54, 52]
\* and spread [4.0, 2.0].
C15_Witness ==
    /\ StatsSucceeded
    /\ call.variable = "temperature"
    /\ result.stats.models = <<"gfs", "ecmwf">>
    /\ result.stats.ensemble_mean = <<52000, 51000>>
    /\ IncludedValues(1) = <<50000, 54000>>
    /\ IncludedValues(2) = <<52000, 50000>>
    /\ result.stats.ensemble_median = <<52000, 51000>>
    /\ result.stats.ensemble_min = <<50000, 50000>>
    /\ result.stats.ensemble_max = <<54000, 52000>>
    /\ result.stats.spread = <<4000, 2000>>

\* C15, where rounding acts: the mean of 50, 54 and 56 is reported as 53.33.
C15_RoundedMeanExample ==
    /\ StatsSucceeded
    /\ result.stats.num_models = 3
    /\ Len(result.stats.ensemble_mean) = 1
    /\ result.stats.ensemble_mean[1] = 53330
    /\ IncludedValues(1) = <<50000, 54000, 56000>>

\* the tiers of each shape, and the statistics call behind each tier
DailyTiers ==
    {"temperature_max", "temperature_min", "wind_speed_max", "precipitation"}

HourlyTiers == {"temperature", "precipitation", "wind_speed"}

ApplicableTiers == IF FirstValidIsDaily THEN DailyTiers ELSE HourlyTiers

TierStatistics(tier) ==
    calculate_ensemble_statistics(forecast_data,
        CASE tier \in {"temperature_max", "temperature_min"} -> "temperature"
          [] tier = "wind_speed_max" -> "wind_speed"
          [] OTHER -> tier,
        tier # "temperature_min")

PresentTiers == {t \in Tiers : result.summary.variables[t].present}

SummaryCalled == call.fn = SummaryFn /\ IsMapping /\ ValidEntries # <<>>

\* C16: the tiers of the summarize_forecast_uncertainty result are among
\* those of the dataset's shape, a tier is present exactly when the
\* calculate_ensemble_statistics call behind it succeeds, and a tier that
\* fails is left out while the summary remains a success.
C16_TiersFollowStatistics ==
    SummaryCalled =>
        /\ result.summary.status = "ok"
        /\ PresentTiers =
               {t \in ApplicableTiers : TierStatistics(t).status = "ok"}

\* C16, of the summaries that are returned: their tiers are exactly the
\* applicable ones whose statistics call succeeds.
C16_TiersOfReturnedSummaries ==
    (SummaryCalled /\ result.summary.status = "ok") =>
        PresentTiers = {t \in ApplicableTiers : TierStatistics(t).status = "ok"}

\* a returned summary that leaves out a failed tier
C16_OmittedTierExample ==
    /\ SummaryCalled
    /\ result.summary.status = "ok"
    /\ FirstValidIsDaily
    /\ TierStatistics("temperature_min").error = "FieldNotFound"
    /\ PresentTiers = DailyTiers \ {"temperature_min"}

\* the level of a tier whose spreads sum to `sum` over n timesteps:
\* temperature low below 3 and moderate below 7, wind low below 3 and
\* moderate below 8, precipitation low below 0.05 and moderate below 0.2
ExpectedLevel(tier, sum, n) ==
    LET low == IF tier = "precipitation" THEN 50 ELSE 3000
        moderate ==
            CASE tier \in {"temperature", "temperature_max", "temperature_min"}
                     -> 7000
              [] tier \in {"wind_speed", "wind_speed_max"} -> 8000
              [] OTHER -> 200
    IN  IF sum < low * n THEN "low"
        ELSE IF sum < moderate * n THEN "moderate"
        ELSE "high"

SummarySucceeded == SummaryCalled /\ result.summary.status = "ok"

\* C17: the uncertainty_level of every tier of a summary is decided by the
\* average of that tier's per-timestep spread alone, against the thresholds
\* of its variable, the same in the hourly and in the daily shape.
C17_LevelFromAverageSpread ==
    SummarySucceeded =>
        \A t \in PresentTiers :
            LET spread == TierStatistics(t).spread
            IN  result.summary.variables[t].uncertainty_level =
                    ExpectedLevel(t, SumSeq(spread), Len(spread))

\* C17 witness: hourly temperature spreads 4 and 2 average exactly 3, which
\* is moderate, while the wind spreads 6 and 3 average 4.5.
C17_Witness ==
    /\ SummarySucceeded
    /\ result.summary.variables["temperature"].present
    /\ TierStatistics("temperature").spread = <<4000, 2000>>
    /\ result.summary.variables["temperature"].average_spread = 3000
    /\ result.summary.variables["temperature"].uncertainty_level = "moderate"

MaxCall == calculate_ensemble_statistics(forecast_data, "temperature", TRUE)
MinCall == calculate_ensemble_statistics(forecast_data, "temperature", FALSE)
RangeCalled == call.fn = RangeFn

\* C18: calculate_daily_temperature_range_statistics returns an error
\* payload exactly when one of its two statistics calls returns an error;
\* otherwise each block holds the statistics of its call, and models and
\* num_models describe the models included in both blocks.
C18_RangeIsComposition ==
    RangeCalled =>
        LET max_stats == MaxCall
            min_stats == MinCall
            range == result.daily_range
        IN  /\ range.status = "error"
                   <=> (max_stats.status = "error" \/ min_stats.status = "error")
            /\ ~(max_stats.status = "error" \/ min_stats.status = "error") =>
                   /\ range.status = "ok"
                   /\ range.temperature_max = RangeBlock(max_stats)
                   /\ range.temperature_min = RangeBlock(min_stats)
                   /\ range.models = max_stats.models
                   /\ range.models = min_stats.models
                   /\ range.num_models = Len(range.models)

\* C18, what holds of every range that is returned: the blocks are those of
\* the two calls, and models and num_models are those of the temperature_max
\* call.
C18_BlocksOfReturnedRanges ==
    (RangeCalled /\ result.daily_range.status = "ok") =>
        LET max_stats == MaxCall
            min_stats == MinCall
            range == result.daily_range
        IN  /\ max_stats.status = "ok" /\ min_stats.status = "ok"
            /\ range.temperature_max = RangeBlock(max_stats)
            /\ range.temperature_min = RangeBlock(min_stats)
            /\ range.models = max_stats.models
            /\ range.num_models = max_stats.num_models

\* C18: a returned range whose temperature_min block is computed from fewer
\* models than `models` lists
C18_ModelsOfMaxOnlyExample ==
    /\ RangeCalled
    /\ result.daily_range.status = "ok"
    /\ Len(MinCall.models) < result.daily_range.num_models

\* the models the invocation in `call` includes, and their field arrays
CallField == ExpectedField(FirstValidIsDaily, call.variable, call.use_max)
CallCarriers == Carriers(call.variable, call.use_max)
CarrierLength(k) == Len(CallCarriers[k].vals[CallField])
CarrierLengths == {CarrierLength(k) : k \in 1..Len(CallCarriers)}
StatsCalledOnCarriers == call.fn = StatsFn /\ IsMapping /\ CallCarriers # <<>>
TimestepsError == result.stats.error = "InconsistentTimesteps"

\* C20: calculate_ensemble_statistics returns an InconsistentTimesteps error
\* exactly when the included models' field arrays do not all have one
\* length, and the model the error names is the offending one: its array
\* length differs from the lengths of the other included models.
C20_OffendingModelNamed ==
    StatsCalledOnCarriers =>
        /\ TimestepsError <=> Cardinality(CarrierLengths) > 1
        /\ TimestepsError =>
               \E k \in 1..Len(CallCarriers) :
                   /\ CallCarriers[k].name = result.stats.error_model
                   /\ \A j \in 1..Len(CallCarriers) :
                          j # k => CarrierLength(j) # CarrierLength(k)

\* C20, what the code keeps: the error is returned exactly when the lengths
\* differ, and it names the first included model whose array is not as long
\* as that of the first included model.
C20_FirstDeviationNamed ==
    StatsCalledOnCarriers =>
        /\ TimestepsError <=> Cardinality(CarrierLengths) > 1
        /\ TimestepsError =>
               \E k \in 2..Len(CallCarriers) :
                   /\ CallCarriers[k].name = result.stats.error_model
                   /\ CarrierLength(k) # CarrierLength(1)
                   /\ \A j \in 1..(k - 1) : CarrierLength(j) = CarrierLength(1)

\* C20: three included models of which the first is the odd one out, and
\* the error names the second
C20_MajorityNamedExample ==
    /\ StatsCalledOnCarriers
    /\ TimestepsError
    /\ Len(CallCarriers) = 3
    /\ CarrierLength(2) = CarrierLength(3)
    /\ CarrierLength(1) # CarrierLength(2)
    /\ result.stats.error_model = CallCarriers[2].name

(***************************************************************************)
(* Concurrent callers: the threads of one process invoke the four          *)
(* functions on one shared dataset, with no synchronization.  In this      *)
(* specification call and result hold one entry per thread.  An invocation *)
(* begins by binding its arguments, reads the shared dataset when it runs  *)
(* (calculate_daily_temperature_range_statistics reads it in two calls,    *)
(* between which the other thread may run), and its caller then takes the  *)
(* payload.                                                                *)
(***************************************************************************)
Threads == {"a", "b"}

\* largest number of models of the shared dataset
MaxSharedModels == 2

SharedThresholds == {2000, 5000}

SharedMembers ==
    {[k \in 1..n |-> IF shape = "daily" THEN DailySeries(ModelNames[k], MaxLen)
                     ELSE HourlySeries(ModelNames[k], MaxLen)] :
        n \in 1..MaxSharedModels, shape \in Shapes}

SharedInputs ==
    {NativeDict(items) : items \in SharedMembers}
    \cup {Text("object", items) : items \in SharedMembers}
    \cup {Text("invalid", <<>>)}

\* a faulty decoding: the decoded value stored into the caller's object
DatasetAfter_Decoded(fd) ==
    IF fd.form # "text" \/ JsonLoads(fd).raised # "" THEN fd
    ELSE IF JsonLoads(fd).isdict THEN NativeDict(JsonLoads(fd).items)
    ELSE NativeList

\* the caller's dataset after a function has run on it: json.loads binds the
\* decoded value to the local name forecast_data, valid_models, model_values
\* and the result are built anew, and no statement stores into the argument
DatasetAfter(fd) == fd

Idle == [pc |-> "idle", args |-> NoCall, max_stats |-> NoStats]

Invocations ==
    {[NoCall EXCEPT !.fn = StatsFn, !.variable = v, !.use_max = m] :
        v \in Variables, m \in BOOLEAN}
    \cup {[NoCall EXCEPT !.fn = AgreementFn, !.variable = v, !.use_max = m,
                         !.threshold = th] :
        v \in Variables, m \in BOOLEAN, th \in SharedThresholds}
    \cup {[NoCall EXCEPT !.fn = RangeFn], [NoCall EXCEPT !.fn = SummaryFn]}

\* the payload of the invocation args on the dataset fd
Invoke(fd, args) ==
    [NoResult EXCEPT
        !.stats = IF args.fn = StatsFn
                  THEN calculate_ensemble_statistics(fd, args.variable,
                                                     args.use_max)
                  ELSE NoStats,
        !.daily_range = IF args.fn = RangeFn
                        THEN calculate_daily_temperature_range_statistics(fd)
                        ELSE NoRange,
        !.agreement = IF args.fn = AgreementFn
                      THEN calculate_model_agreement(fd, args.variable,
                                                     args.threshold,
                                                     args.use_max)
                      ELSE NoAgreement,
        !.summary = IF args.fn = SummaryFn
                    THEN summarize_forecast_uncertainty(fd)
                    ELSE NoSummary]

InitThreads ==
    /\ forecast_data \in SharedInputs
    /\ runtime \in Runtimes
    /\ call = [t \in Threads |-> Idle]
    /\ result = [t \in Threads |-> NoResult]
    /\ NoRun

Begin(t) ==
    \E args \in Invocations :
        /\ call[t].pc = "idle"
        /\ call' = [call EXCEPT ![t] = [Idle EXCEPT !.pc = "running",
                                                    !.args = args]]
        /\ UNCHANGED <<forecast_data, runtime, result>>
        /\ UNCHANGED run_vars

\* a function that reads the dataset in one piece
Run(t) ==
    /\ call[t].pc = "running"
    /\ call[t].args.fn # RangeFn
    /\ result' = [result EXCEPT ![t] = Invoke(forecast_data, call[t].args)]
    /\ call' = [call EXCEPT ![t].pc = "done"]
    /\ forecast_data' = DatasetAfter(forecast_data)
    /\ UNCHANGED runtime
    /\ UNCHANGED run_vars

\* line 160
RangeMaxCall(t) ==
    /\ call[t].pc = "running"
    /\ call[t].args.fn = RangeFn
    /\ call' = [call EXCEPT
                  ![t].pc = "max_done",
                  ![t].max_stats =
                      calculate_ensemble_statistics(forecast_data,
                                                    "temperature", TRUE)]
    /\ forecast_data' = DatasetAfter(forecast_data)
    /\ UNCHANGED <<runtime, result>>
    /\ UNCHANGED run_vars

\* lines 161-181
RangeMinCall(t) ==
    /\ call[t].pc = "max_done"
    /\ result' = [result EXCEPT ![t] =
           [NoResult EXCEPT !.daily_range =
               ComposeRange(call[t].max_stats,
                            calculate_ensemble_statistics(forecast_data,
                                                          "temperature",
                                                          FALSE))]]
    /\ call' = [call EXCEPT ![t].pc = "done", ![t].max_stats = NoStats]
    /\ forecast_data' = DatasetAfter(forecast_data)
    /\ UNCHANGED runtime
    /\ UNCHANGED run_vars

\* the caller takes the payload
Take(t) ==
    /\ call[t].pc = "done"
    /\ call' = [call EXCEPT ![t] = Idle]
    /\ result' = [result EXCEPT ![t] = NoResult]
    /\ UNCHANGED <<forecast_data, runtime>>
    /\ UNCHANGED run_vars

NextThreads ==
    \E t \in Threads :
        \/ Begin(t)
        \/ Run(t)
        \/ RangeMaxCall(t)
        \/ RangeMinCall(t)
        \/ Take(t)

SpecThreads == InitThreads /\ [][NextThreads]_vars

Returned(t) == call[t].pc = "done"

C19_InterleavedExample ==
    /\ call["a"].pc = "max_done"
    /\ Returned("b")
    /\ call["b"].args.fn = SummaryFn
    /\ result["b"].summary.status = "ok"

StatsCalled == call.fn = StatsFn /\ IsMapping
FieldNotFoundError == result.stats.error = "FieldNotFound"

\* C21: calculate_ensemble_statistics returns a FieldNotFound error exactly
\* when the dataset has a valid model and no valid model carries the
\* resolved field; the error names that field and lists the keys of the
\* first valid model.
C21_FieldNotFound ==
    StatsCalled =>
        /\ FieldNotFoundError
               <=> /\ ValidEntries # <<>>
                   /\ \A k \in 1..Len(ValidEntries) :
                          CallField \notin ValidEntries[k].keys
        /\ FieldNotFoundError =>
               /\ result.stats.status = "error"
               /\ result.stats.error_field = CallField
               /\ result.stats.error_keys = ValidEntries[1].keys

\* C21 witness: a daily model without temperature_min followed by an hourly
\* model, asked for the minimum temperature; the error lists the keys of the
\* first.
C21_Witness ==
    /\ StatsCalled
    /\ FieldNotFoundError
    /\ Len(ValidEntries) = 2
    /\ result.stats.error_field = "temperature_min"
    /\ result.stats.error_keys = ValidEntries[1].keys
    /\ "temperature_max" \in result.stats.error_keys
    /\ "times" \in ValidEntries[2].keys
    /\ "times" \notin result.stats.error_keys

CarrierValues(i) ==
    [k \in 1..Len(CallCarriers) |-> CallCarriers[k].vals[CallField][i]]

\* C22: a valid model without the resolved field is left out of the
\* computation and raises no FieldNotFound error while another model carries
\* the field: in a success result `models` names exactly the valid models
\* with the resolved field, in order, num_models is their number, and each
\* per-timestep value is that of their values alone.
C22_ExcludedWithoutError ==
    StatsCalled =>
        /\ CallCarriers # <<>> => ~FieldNotFoundError
        /\ result.stats.status = "ok" =>
               /\ result.stats.models =
                      [k \in 1..Len(CallCarriers) |-> CallCarriers[k].name]
               /\ result.stats.num_models = Len(CallCarriers)
               /\ \A i \in 1..Len(result.stats.spread) :
                      LET values == CarrierValues(i)
                      IN  /\ result.stats.ensemble_mean[i] = EnsembleMean(values)
                          /\ result.stats.ensemble_median[i] = EnsembleMedian(values)
                          /\ result.stats.ensemble_std[i] = EnsembleStd(values)
                          /\ result.stats.ensemble_min[i] = EnsembleMin(values)
                          /\ result.stats.ensemble_max[i] = EnsembleMax(values)
                          /\ result.stats.percentile_25[i] = Percentile(values, 1)
                          /\ result.stats.percentile_75[i] = Percentile(values, 3)
                          /\ result.stats.spread[i] = Spread(values)

\* C22 witness: the first of two daily models has no temperature_min; the
\* minimum temperature is computed from the second alone.
C22_Witness ==
    /\ StatsCalled
    /\ result.stats.status = "ok"
    /\ Len(ValidEntries) = 2
    /\ "temperature_min" \notin ValidEntries[1].keys
    /\ result.stats.field = "temperature_min"
    /\ result.stats.models = <<ValidEntries[2].name>>
    /\ result.stats.num_models = 1
    /\ Len(result.stats.spread) = MaxLen
    /\ result.stats.ensemble_mean[1] = ValidEntries[2].vals["temperature_min"][1]

(***************************************************************************)
(* Datasets of series longer than the slices of the period lists           *)
(***************************************************************************)
\* the timesteps of a long series
MaxLongLen == 7

\* odd lengths, so that the mean of the scores never falls half way
LongLengths == {MaxLen + 1, MaxLongLen}

RECURSIVE LongItemSeqsOfLen(_, _, _)
LongItemSeqsOfLen(k, shape, n) ==
    IF k = 0 THEN <<>>
    ELSE Append(LongItemSeqsOfLen(k - 1, shape, n),
                IF shape = "daily" THEN DailySeries(ModelNames[k], n)
                ELSE HourlySeries(ModelNames[k], n))

LongInputs ==
    {NativeDict(LongItemSeqsOfLen(k, shape, n)) :
        k \in 1..MaxModels, shape \in Shapes, n \in LongLengths}

InitLong ==
    /\ forecast_data \in LongInputs
    /\ runtime \in Runtimes
    /\ call = NoCall
    /\ result = NoResult
    /\ NoRun

SpecLong == InitLong /\ [][Next]_vars

\* the j-th of a set of timesteps, in increasing order
NthStep(steps, j) ==
    CHOOSE h \in steps : Cardinality({g \in steps : g < h}) = j - 1

Shorter(a, b) == IF a < b THEN a ELSE b

\* periods lists the first 5 of `steps`, in increasing order
ListsEarliest(periods, steps) ==
    /\ Len(periods) = Shorter(5, Cardinality(steps))
    /\ \A j \in 1..Len(periods) :
           LET i == NthStep(steps, j)
           IN  /\ periods[j].time = TimeLabel(Labels, i)
               /\ periods[j].spread = Spreads[i]
               /\ periods[j].agreement_score =
                      Round3(1000 * Scores[i][1], Scores[i][2])

\* C23: in a success result of calculate_model_agreement,
\* high_agreement_periods is the first 5 high-agreement timesteps in
\* increasing order (all of them when fewer), low_agreement_periods
\* likewise, each of length min(5, count), and the two counts count every
\* qualifying timestep.
C23_PeriodsTruncated ==
    AgreementSucceeded =>
        LET high == HighSteps(Scores)
            low == LowSteps(Scores) \ HighSteps(Scores)
        IN  /\ result.agreement.high_agreement_count = Cardinality(high)
            /\ result.agreement.low_agreement_count = Cardinality(low)
            /\ ListsEarliest(result.agreement.high_agreement_periods, high)
            /\ ListsEarliest(result.agreement.low_agreement_periods, low)

\* C23 witness: 7 high-agreement timesteps of which the first 5 are listed.
C23_Witness ==
    /\ AgreementSucceeded
    /\ call.threshold = 5000
    /\ result.agreement.high_agreement_count = MaxLongLen
    /\ Len(result.agreement.high_agreement_periods) = 5
    /\ result.agreement.high_agreement_periods[1].time = Labels[1]
    /\ result.agreement.high_agreement_periods[5].time = Labels[5]

\* C23: 5 low-agreement timesteps out of 7, not the first 5 of the series,
\* beside a list of fewer than 5
C23_LowExample ==
    /\ AgreementSucceeded
    /\ result.agreement.low_agreement_count = 5
    /\ Len(result.agreement.low_agreement_periods) = 5
    /\ result.agreement.low_agreement_periods[5].time = Labels[MaxLongLen]
    /\ result.agreement.high_agreement_count = 0

\* the score reported for timestep i: round(agreement_score, 3)
ReportedScore(i) == Round3(1000 * Scores[i][1], Scores[i][2])

\* r is num/den rounded to 3 decimals
IsRounded3(r, num, den) == 2 * Distance(r * den, num) <= den

AllPeriods ==
    result.agreement.high_agreement_periods
        \o result.agreement.low_agreement_periods

\* C24: mean_agreement, min_agreement and max_agreement are the mean, the
\* least and the greatest of the scores of all the timesteps, those in no
\* bucket and those cut off the lists included; so min_agreement <=
\* mean_agreement <= max_agreement, and the score of every listed period is
\* between min_agreement and max_agreement.
C24_AggregatesOverAllTimesteps ==
    AgreementSucceeded =>
        LET n == Len(Scores)
            all == {ReportedScore(i) : i \in 1..n}
            outcome == result.agreement
        IN  /\ outcome.min_agreement \in all
            /\ \A s \in all : outcome.min_agreement <= s
            /\ outcome.max_agreement \in all
            /\ \A s \in all : s <= outcome.max_agreement
            /\ IsRounded3(outcome.mean_agreement,
                          SumSeq([i \in 1..n |-> ReportedScore(i)]), n)
            /\ outcome.min_agreement <= outcome.mean_agreement
            /\ outcome.mean_agreement <= outcome.max_agreement
            /\ \A j \in 1..Len(AllPeriods) :
                   /\ outcome.min_agreement <= AllPeriods[j].agreement_score
                   /\ AllPeriods[j].agreement_score <= outcome.max_agreement

\* C24 witness: wind speed under threshold 5 over 7 timesteps: the lowest
\* score, 0.1, is at timestep 3, the fifth low timestep is the last one, and
\* the highest score, 0.7, belongs to timesteps in neither bucket.
C24_Witness ==
    /\ AgreementSucceeded
    /\ NumTimesteps = MaxLongLen
    /\ result.agreement.high_agreement_count = 0
    /\ result.agreement.low_agreement_count = 5
    /\ result.agreement.min_agreement = 100
    /\ result.agreement.max_agreement = 700
    /\ \A j \in 1..Len(AllPeriods) : AllPeriods[j].agreement_score < 700
    /\ result.agreement.mean_agreement > result.agreement.min_agreement
    /\ result.agreement.mean_agreement < result.agreement.max_agreement

\* C24: 7 low-agreement timesteps of which 2 are cut off the list;
\* mean_agreement is the mean of all 7 scores and not that of the 5 listed
C24_CutOffExample ==
    /\ AgreementSucceeded
    /\ result.agreement.low_agreement_count = MaxLongLen
    /\ Len(AllPeriods) = 5
    /\ IsRounded3(result.agreement.mean_agreement,
                  SumSeq([i \in 1..MaxLongLen |-> ReportedScore(i)]),
                  MaxLongLen)
    /\ ~IsRounded3(result.agreement.mean_agreement,
                   SumSeq([j \in 1..5 |-> AllPeriods[j].agreement_score]), 5)

\* the orders in which a mapping of n items can be iterated
Orders(n) == {p \in [1..n -> 1..n] : \A a, b \in 1..n : p[a] = p[b] => a = b}

\* the dataset with its items in the order p
Reordered(p) == NativeDict([k \in 1..Len(Dataset) |-> Dataset[p[k]]])

PerTimestepArrays(stats) ==
    <<stats.ensemble_mean, stats.ensemble_median, stats.ensemble_std,
      stats.ensemble_min, stats.ensemble_max, stats.percentile_25,
      stats.percentile_75, stats.spread>>

\* C25: iterating the models of a dataset of uniform shape in another order
\* leaves every per-timestep array of the result of
\* calculate_ensemble_statistics as it is, and `models` lists the included
\* models in the order of the iteration.
C25_OrderOfModels ==
    StatsSucceeded =>
        \A p \in Orders(Len(Dataset)) :
            LET other == calculate_ensemble_statistics(
                             Reordered(p), call.variable, call.use_max)
                named == {result.stats.models[k] :
                              k \in 1..Len(result.stats.models)}
            IN  /\ other.status = "ok"
                /\ PerTimestepArrays(other) = PerTimestepArrays(result.stats)
                /\ other.models =
                       ModelNamesOf(SelectSeq(Reordered(p).items,
                                              LAMBDA e : e.name \in named))

\* C25 witness: three included models whose values at timestep 2 are not in
\* increasing order, the median being another value than the middle one of
\* the iteration.
C25_Witness ==
    /\ StatsSucceeded
    /\ Len(Dataset) = 3
    /\ result.stats.models = ModelNamesOf(Dataset)
    /\ Len(result.stats.ensemble_median) = MaxLen
    /\ result.stats.ensemble_median[2] # IncludedValues(2)[2]
    /\ calculate_ensemble_statistics(Reordered(<<3, 1, 2>>), call.variable,
                                     call.use_max).models
           = <<Dataset[3].name, Dataset[1].name, Dataset[2].name>>

\* a model supplies an index array: it has `times` or `dates`
SuppliesIndex(e) == "times" \in e.keys \/ "dates" \in e.keys

\* its `times` array, else its `dates` array
IndexOf(e) == IF "times" \in e.keys THEN e.times ELSE e.dates

Suppliers == SelectSeq(CallCarriers, SuppliesIndex)

\* C26: the `times` of a calculate_ensemble_statistics result is the index
\* array of the first model of the computation, in iteration order, that
\* supplies one (its `times`, else its `dates`); a model that supplies none
\* does not keep a later model's index from being used.
C26_IndexOfFirstSupplier ==
    StatsSucceeded =>
        result.stats.times =
            IF Suppliers = <<>> THEN <<>> ELSE IndexOf(Suppliers[1])

\* C26, what the code keeps: `times` is the index of the first model of the
\* computation, whether it supplies one or not.
C26_IndexOfFirstIncluded ==
    StatsSucceeded =>
        result.stats.times =
            IF SuppliesIndex(CallCarriers[1]) THEN IndexOf(CallCarriers[1])
            ELSE <<>>

\* C26: the first model has no index array, the second has its dates, and
\* `times` is empty
C26_LaterIndexIgnoredExample ==
    /\ StatsSucceeded
    /\ result.stats.num_models = 2
    /\ ~SuppliesIndex(CallCarriers[1])
    /\ Len(IndexOf(CallCarriers[2])) = MaxLen
    /\ result.stats.times = <<>>
    /\ Len(result.stats.spread) = MaxLen

(***************************************************************************)
(* WeatherEnsembleAgent.run: the loop that sends the conversation to the   *)
(* model, executes the tools the model asks for and sends their results    *)
(* back, until the model answers or max_iterations requests were made.     *)
(* The model's responses and the fate of every tool execution are inputs.  *)
(***************************************************************************)
\* the largest max_iterations of a run
MaxIterations == 3

MaxIterationsReached == "Max iterations reached"

KnownTools ==
    {"geocode_location", "fetch_weather_forecast", "get_available_models",
     "calculate_ensemble_statistics", "calculate_model_agreement",
     "summarize_forecast_uncertainty", "fetch_daily_weather_forecast",
     "calculate_daily_temperature_range_statistics",
     "create_ensemble_uncertainty_plot"}

\* the blocks of a response; only a text block has the attribute `text`
TextBlock(text) == [type |-> "text", text |-> text]
ToolUseBlock(id, name) == [type |-> "tool_use", id |-> id, name |-> name]
HasText(block) == block.type = "text"

\* what the content of a response can be: kinds of blocks, by position
\* ("call" asks for a tool of the agent, "stray" for one it does not have)
ContentKinds ==
    {<<>>, <<"text">>, <<"call">>, <<"stray">>, <<"text", "call">>,
     <<"text", "text">>, <<"call", "stray">>, <<"call", "text", "call">>}

TextAt == <<"first text", "second text", "third text">>

\* the content of the response to request number n
ContentOf(kinds, n) ==
    [k \in 1..Len(kinds) |->
        CASE kinds[k] = "text" -> TextBlock(TextAt[k])
          [] kinds[k] = "call" ->
                 ToolUseBlock(<<"toolu", n, k>>, "calculate_ensemble_statistics")
          [] OTHER -> ToolUseBlock(<<"toolu", n, k>>, "no_such_tool")]

StopReasons == {"end_turn", "tool_use", "max_tokens"}

\* _execute_tool: an unknown name raises ValueError; a tool of the agent
\* returns or raises
ToolOutcomes(name) ==
    IF name \in KnownTools THEN {"returned", "raised"} ELSE {"raised"}

\* a faulty except branch: the error result is not marked
ToolResult_Unmarked(block, outcome) ==
    [type |-> "tool_result", tool_use_id |-> block.id,
     content |-> IF outcome = "raised" THEN "error" ELSE "result",
     is_error |-> FALSE]

\* lines 490-512: the tool_result appended for a tool_use block (content is
\* the JSON of the tool's result, or of {"error": str(e)})
ToolResult(block, outcome) ==
    [type |-> "tool_result", tool_use_id |-> block.id,
     content |-> IF outcome = "raised" THEN "error" ELSE "result",
     is_error |-> outcome = "raised"]

\* the tool_use blocks of a content, in order
ToolUses(content) == SelectSeq(content, LAMBDA b : b.type = "tool_use")

UserMessage == [role |-> "user", content |-> <<TextBlock("user_message")>>]

InitAgent ==
    /\ forecast_data = Text("invalid", <<>>)
    /\ runtime \in Runtimes
    /\ call = NoCall
    /\ result = NoResult
    /\ messages = <<UserMessage>>
    /\ iteration = 0
    /\ max_iterations \in 0..MaxIterations
    /\ response = NoResponse
    /\ tool_log = <<>>
    /\ returned = ""
    /\ pc = "loop"

\* lines 432-449: the loop is entered once more and the model answers
Request ==
    /\ pc = "loop"
    /\ iteration < max_iterations
    /\ iteration' = iteration + 1
    /\ \E stop_reason \in StopReasons, kinds \in ContentKinds :
           response' = [stop_reason |-> stop_reason,
                        content |-> ContentOf(kinds, iteration + 1)]
    /\ pc' = "respond"
    /\ UNCHANGED <<messages, max_iterations, tool_log, returned>>
    /\ UNCHANGED tool_vars

\* line 442: the request raises (network, API error) and so does run
RequestRaises ==
    /\ pc = "loop"
    /\ iteration < max_iterations
    /\ iteration' = iteration + 1
    /\ pc' = "raised"
    /\ UNCHANGED <<messages, max_iterations, response, tool_log, returned>>
    /\ UNCHANGED tool_vars

\* lines 455-461: the text of the first block that has one is returned; with
\* no such block the loop goes on
EndTurn ==
    /\ pc = "respond"
    /\ response.stop_reason = "end_turn"
    /\ LET texts == SelectSeq(response.content, HasText)
       IN  IF texts # <<>>
           THEN returned' = texts[1].text /\ pc' = "done"
           ELSE returned' = returned /\ pc' = "loop"
    /\ UNCHANGED <<messages, iteration, max_iterations, response, tool_log>>
    /\ UNCHANGED tool_vars

\* lines 464-516: the response is appended, every tool_use block is executed
\* in order, and the results are appended as one user message
ToolUse ==
    /\ pc = "respond"
    /\ response.stop_reason = "tool_use"
    /\ LET blocks == ToolUses(response.content)
       IN  \E outcomes \in [1..Len(blocks) -> {"returned", "raised"}] :
               /\ \A k \in 1..Len(blocks) :
                      outcomes[k] \in ToolOutcomes(blocks[k].name)
               /\ tool_log' = [k \in 1..Len(blocks) |->
                                  [id |-> blocks[k].id,
                                   name |-> blocks[k].name,
                                   outcome |-> outcomes[k]]]
               /\ messages' = messages \o
                      << [role |-> "assistant", content |-> response.content],
                         [role |-> "user",
                          content |-> [k \in 1..Len(blocks) |->
                                          ToolResult(blocks[k], outcomes[k])]] >>
    /\ pc' = "loop"
    /\ UNCHANGED <<iteration, max_iterations, response, returned>>
    /\ UNCHANGED tool_vars

\* lines 517-520 and 522: any other stop reason breaks out of the loop
UnexpectedStopReason ==
    /\ pc = "respond"
    /\ response.stop_reason \notin {"end_turn", "tool_use"}
    /\ returned' = MaxIterationsReached
    /\ pc' = "done"
    /\ UNCHANGED <<messages, iteration, max_iterations, response, tool_log>>
    /\ UNCHANGED tool_vars

\* lines 431 and 522: the loop condition fails
LoopExhausted ==
    /\ pc = "loop"
    /\ iteration >= max_iterations
    /\ returned' = MaxIterationsReached
    /\ pc' = "done"
    /\ UNCHANGED <<messages, iteration, max_iterations, response, tool_log>>
    /\ UNCHANGED tool_vars

NextAgent ==
    \/ Request
    \/ RequestRaises
    \/ EndTurn
    \/ ToolUse
    \/ UnexpectedStopReason
    \/ LoopExhausted

SpecAgent == InitAgent /\ [][NextAgent]_vars

HandlingToolUse == pc = "respond" /\ response.stop_reason = "tool_use"

\* the last response asked for tools and they have been handled
ToolsHandled == pc \in {"loop", "done"} /\ response.stop_reason = "tool_use"

\* the ids of the tool_use blocks of the last response, in block order
RequestedIds ==
    [k \in 1..Len(ToolUses(response.content)) |->
        ToolUses(response.content)[k].id]

\* C27: after a response with stop_reason tool_use the conversation grows by
\* that assistant response and one user message with exactly one
\* tool_result per tool_use block, in block order, each with that block's
\* id; a tool that raised gives a tool_result marked is_error with an error
\* payload, the blocks after it are executed all the same, and the loop goes
\* on to its next round.
C27_ToolResultsFollowToolUses ==
    /\ [][HandlingToolUse =>
             /\ pc' = "loop"
             /\ Len(messages') = Len(messages) + 2
             /\ SubSeq(messages', 1, Len(messages)) = messages]_vars
    /\ [][~HandlingToolUse => messages' = messages]_vars
    /\ [](ToolsHandled =>
             LET n == Len(messages)
                 results == messages[n].content
             IN  /\ messages[n - 1] =
                        [role |-> "assistant", content |-> response.content]
                 /\ messages[n].role = "user"
                 /\ Len(results) = Len(RequestedIds)
                 /\ Len(tool_log) = Len(RequestedIds)
                 /\ \A k \in 1..Len(results) :
                        /\ results[k].type = "tool_result"
                        /\ results[k].tool_use_id = RequestedIds[k]
                        /\ tool_log[k].id = RequestedIds[k]
                        /\ results[k].is_error
                               <=> tool_log[k].outcome = "raised"
                        /\ results[k].is_error
                               <=> results[k].content = "error")

\* C27 witness: the first of two tools raised, the second was executed and
\* returned, and the loop is about to send its next request.
C27_Witness ==
    /\ ToolsHandled
    /\ pc = "loop"
    /\ iteration < max_iterations
    /\ Len(tool_log) = 2
    /\ tool_log[1].outcome = "raised"
    /\ tool_log[2].outcome = "returned"
    /\ Len(response.content) = 3
    /\ messages[Len(messages)].content[1].is_error
    /\ ~messages[Len(messages)].content[2].is_error
    /\ messages[Len(messages)].content[2].tool_use_id = response.content[3].id

RunReturned == pc = "done"

\* the last response is a final answer: end_turn with a text block
FinalAnswer ==
    /\ response.stop_reason = "end_turn"
    /\ \E k \in 1..Len(response.content) : HasText(response.content[k])

\* the text of the first text block of the last response
FinalText == SelectSeq(response.content, HasText)[1].text

\* C28: run makes at most max_iterations requests; it returns the text of
\* the model's final answer, and it returns "Max iterations reached" only
\* after max_iterations requests none of which gave a final answer.
C28_ReturnValue ==
    /\ iteration <= max_iterations
    /\ RunReturned =>
           IF returned = MaxIterationsReached
           THEN iteration = max_iterations /\ ~FinalAnswer
           ELSE FinalAnswer /\ returned = FinalText

\* C28, what the code keeps: at most max_iterations requests, a final answer
\* is returned as it is, and "Max iterations reached" is returned when the
\* limit is reached or when a response stops for another reason than
\* end_turn or tool_use.
C28_ReturnValueOrBreak ==
    /\ iteration <= max_iterations
    /\ RunReturned =>
           IF returned = MaxIterationsReached
           THEN /\ ~FinalAnswer
                /\ \/ iteration = max_iterations
                   \/ response.stop_reason \notin {"end_turn", "tool_use"}
           ELSE FinalAnswer /\ returned = FinalText

\* C28: the first response stops at max_tokens with a text; run returns
\* "Max iterations reached" after one request out of 3
C28_BreakExample ==
    /\ RunReturned
    /\ returned = MaxIterationsReached
    /\ max_iterations = MaxIterations
    /\ iteration = 1
    /\ response.stop_reason = "max_tokens"
    /\ Len(response.content) = 1
    /\ HasText(response.content[1])

\* calculate_ensemble_statistics on the arguments of the invocation in `call`
StatsOfCall ==
    calculate_ensemble_statistics(forecast_data, call.variable, call.use_max)

\* the j-th entry of `periods` is timestep NthStep(steps, j) of the
\* statistics: the same spread and the same time
PeriodsMatchStatistics(periods, steps, stats) ==
    \A j \in 1..Len(periods) :
        LET i == NthStep(steps, j)
        IN  /\ i <= Len(stats.spread)
            /\ periods[j].spread = stats.spread[i]
            /\ i <= Len(stats.times)
            /\ periods[j].time = stats.times[i]

\* C29: whenever calculate_model_agreement succeeds,
\* calculate_ensemble_statistics on the same dataset, variable and use_max
\* succeeds too, with the same `field` and the same `models`, and the spread
\* and the time of every period are those of the statistics at the period's
\* timestep.
C29_SameNormalisation ==
    AgreementSucceeded =>
        LET stats == StatsOfCall
        IN  /\ stats.status = "ok"
            /\ stats.field = result.agreement.field
            /\ stats.models = result.agreement.models
            /\ PeriodsMatchStatistics(result.agreement.high_agreement_periods,
                                      HighSteps(Scores), stats)
            /\ PeriodsMatchStatistics(result.agreement.low_agreement_periods,
                                      LowSteps(Scores) \ HighSteps(Scores),
                                      stats)

\* C29, what holds: the two functions agree whenever the statistics succeed
\* on a dataset of one shape
C29_SameWhereStatisticsSucceed ==
    (AgreementSucceeded /\ StatsOfCall.status = "ok") =>
        LET stats == StatsOfCall
        IN  /\ stats.field = result.agreement.field
            /\ stats.models = result.agreement.models
            /\ PeriodsMatchStatistics(result.agreement.high_agreement_periods,
                                      HighSteps(Scores), stats)
            /\ PeriodsMatchStatistics(result.agreement.low_agreement_periods,
                                      LowSteps(Scores) \ HighSteps(Scores),
                                      stats)

\* C29: the agreement of a model of 1 timestep and one of 2 is computed,
\* the statistics refuse them
C29_LengthsExample ==
    /\ AgreementSucceeded
    /\ result.agreement.num_models = 2
    /\ Len(Compared[1].values) = 1
    /\ Len(Compared[2].values) = 2
    /\ StatsOfCall.error = "InconsistentTimesteps"

\* C29: an hourly and a daily model are compared, each under the field of
\* its own shape, while the statistics keep the models of one field
C29_ShapesExample ==
    /\ AgreementSucceeded
    /\ result.agreement.num_models = 2
    /\ StatsOfCall.status = "ok"
    /\ StatsOfCall.num_models = 1
    /\ StatsOfCall.field # result.agreement.field

(***************************************************************************)
(* Datasets whose average precipitation spread is close to a threshold     *)
(***************************************************************************)
\* two tables of the precipitation of three models over three timesteps,
\* in thousandths: the spreads are 0.04, 0.04, 0.06 (average 0.0467) in the
\* first and 0.04, 0.06, 0.06 (average 0.0533) in the second
EdgeTables == {"below", "above"}

EdgePrecipitation(table, name) ==
    CASE name = "gfs"   -> <<0, 0, 0>>
      [] name = "ecmwf" -> IF table = "below" THEN <<40, 40, 60>>
                           ELSE <<40, 60, 60>>
      [] OTHER          -> <<20, 20, 20>>

EdgeSeries(table, shape, name) ==
    LET values == EdgePrecipitation(table, name)
    IN  [(IF shape = "daily" THEN DailySeries(name, Len(values))
          ELSE HourlySeries(name, Len(values)))
            EXCEPT !.vals["precipitation"] = values]

\* three models are always there: the quartiles of three values are two of
\* them, so that nothing the functions round falls half way
EdgeInputs ==
    {NativeDict(<<EdgeSeries(table, shape, "gfs"),
                  EdgeSeries(table, shape, "ecmwf"),
                  EdgeSeries(table, shape, "gem")>>) :
        table \in EdgeTables, shape \in Shapes}

InitEdge ==
    /\ forecast_data \in EdgeInputs
    /\ runtime \in Runtimes
    /\ call = NoCall
    /\ result = NoResult
    /\ NoRun

SpecEdge == InitEdge /\ [][Next]_vars

\* the thresholds of a tier, in thousandths
LowOf(tier) ==
    CASE tier = "precipitation" -> PrecipitationLow
      [] tier \in {"wind_speed", "wind_speed_max"} -> WindLow
      [] OTHER -> TemperatureLow

ModerateOf(tier) ==
    CASE tier = "precipitation" -> PrecipitationModerate
      [] tier \in {"wind_speed", "wind_speed_max"} -> WindModerate
      [] OTHER -> TemperatureModerate

\* the level the thresholds of a tier give to a number of thousandths
LevelOfReported(tier, value) ==
    IF value < LowOf(tier) THEN "low"
    ELSE IF value < ModerateOf(tier) THEN "moderate" ELSE "high"

\* C30: in every tier of a summarize_forecast_uncertainty result, applying
\* the tier's thresholds to the reported 2-decimal average_spread gives the
\* reported uncertainty_level, and average_spread <= max_spread.
C30_LabelAgreesWithNumbers ==
    SummarySucceeded =>
        \A t \in PresentTiers :
            LET entry == result.summary.variables[t]
            IN  /\ entry.uncertainty_level =
                       LevelOfReported(t, entry.average_spread)
                /\ entry.average_spread <= entry.max_spread

\* What does hold: average_spread <= max_spread, and the label is the level
\* of the reported average except where the reported average is a threshold
\* itself, where the label may be the level below that threshold.
C30_LabelAgreesUpToRounding ==
    SummarySucceeded =>
        \A t \in PresentTiers :
            LET entry == result.summary.variables[t]
            IN  /\ entry.average_spread <= entry.max_spread
                /\ \/ entry.uncertainty_level =
                          LevelOfReported(t, entry.average_spread)
                   \/ /\ entry.average_spread \in {LowOf(t), ModerateOf(t)}
                      /\ entry.uncertainty_level =
                             LevelOfReported(t, entry.average_spread - 1)

\* precipitation spreads 0.04, 0.04 and 0.06 average 0.0467: the summary
\* reports average_spread 0.05 with the level "low"
C30_RoundedOntoThresholdExample ==
    /\ SummarySucceeded
    /\ result.summary.variables["precipitation"].present
    /\ TierStatistics("precipitation").spread = <<40, 40, 60>>
    /\ result.summary.variables["precipitation"].average_spread =
           PrecipitationLow
    /\ result.summary.variables["precipitation"].uncertainty_level = "low"

====
